---- MODULE Spec2Model ----
(***************************************************************************)
(* Workflow runner of the customer demo (app/workflow-test/[id]/page.tsx)  *)
(* together with the generic proxy route it posts to.  The React state of  *)
(* WorkflowTestPage is the model's state; every pending handleSubmit is a  *)
(* record of the values its closure captured.                              *)
(***************************************************************************)
EXTENDS Integers, Sequences, FiniteSets, TLC

VARIABLES workflow, currentStep, stepResponses, formData, loading, error,
          calls, attempt, failedStep,
          draft, savedWorkflows, editorOpen, isPartOfWorkflow,
          storedIsPartOfWorkflow,
          dbApiConfigs, localApiConfigs, editPage, editId, apiConfig,
          newParameter, putRequests,
          messages, input, product, products, chatLoading, chatError,
          systemMessage, chatRequests, asked,
          processing, slackLoading, channels, slackStatus, slackRequests, slackOps,
          apiResponse, apiResult,
          apiConfigRows, apiHeaderRows, apiParameterRows, created, routeRequest, routeReply, deletedIds,
          streamItems, reads, streamPhase, sources, accumulated, onChunkCalls, onCompleteCalls

\* the state of WorkflowTestPage and of its pending calls
runnerVars == <<workflow, currentStep, stepResponses, formData, loading, error,
                calls, attempt, failedStep>>

\* the state of WorkflowPage (the workflow editor): the steps of the workflow
\* being composed, localStorage 'apiWorkflows', and whether the page is open
\* isPartOfWorkflow is the set of the ids of the page's apis that carry the
\* mark, storedIsPartOfWorkflow the set of the ids whose record in
\* localStorage 'apiConfigs' has the optional field isPartOfWorkflow true
editorVars == <<draft, savedWorkflows, editorOpen, isPartOfWorkflow,
                storedIsPartOfWorkflow>>

\* the API definitions and the two pages that edit one: the table behind
\* /api/api-configs, localStorage 'apiConfigs', which of the two pages is
\* open ("db" for EditApiConfig, "local" for EditApiConfigPage) and
\* for which id, the page's apiConfig and newParameter, and the PUT requests
\* of EditApiConfig that are in flight
configVars == <<dbApiConfigs, localApiConfigs, editPage, editId, apiConfig,
                newParameter, putRequests>>

\* the state of the documentation chat (Chat): chatLoading and chatError
\* are its loading and error, chatRequests the requests of the component
\* that are in flight, each with what its handler holds across the await,
\* and asked the number of questions sent so far
chatVars == <<messages, input, product, products, chatLoading, chatError,
              systemMessage, chatRequests, asked>>

\* the state of the Slack manager (SlackManager): processing is its
\* processing marker, slackLoading and slackStatus its loading and status,
\* channels the ids of the configured channels it lists, slackRequests the
\* requests of the component that are in flight, and slackOps the number of
\* requests it has started so far
slackVars == <<processing, slackLoading, channels, slackStatus, slackRequests, slackOps>>

\* one call of apiRequest (services/api.ts): apiResponse is what fetch and
\* response.json() give it, apiResult what it has returned (NoResult before)
apiVars == <<apiResponse, apiResult>>

\* the routes /api/api-configs and /api/api-configs/[id] over the three
\* tables of the Prisma schema: apiConfigRows, apiHeaderRows and
\* apiParameterRows are the rows of ApiConfig, ApiHeader and ApiParameter,
\* created the number of definitions created so far (ids are never used
\* again), routeRequest the body of the last request, routeReply the last
\* response, and deletedIds the ids that a DELETE has removed
routeVars == <<apiConfigRows, apiHeaderRows, apiParameterRows, created, routeRequest, routeReply, deletedIds>>

\* one call of chatService.streamMessage: streamItems is what the server
\* writes to the stream (pieces of content and sources metadata), reads
\* what reader.read() is still to give, streamPhase where the call is,
\* sources and accumulated its two locals, onChunkCalls and onCompleteCalls
\* the arguments of the calls made so far of the two callbacks
streamVars == <<streamItems, reads, streamPhase, sources, accumulated, onChunkCalls, onCompleteCalls>>

vars == <<runnerVars, editorVars, configVars, chatVars, slackVars, apiVars, routeVars, streamVars>>

\* what the workflow runner leaves alone
nonRunnerVars == <<editorVars, configVars, chatVars, slackVars, apiVars, routeVars, streamVars>>

\* what the workflow editor leaves alone
nonEditorVars == <<runnerVars, configVars, chatVars, slackVars, apiVars, routeVars, streamVars>>

\* what the pages of the API definitions leave alone
nonConfigVars == <<runnerVars, editorVars, chatVars, slackVars, apiVars, routeVars, streamVars>>

\* what the chat leaves alone
nonChatVars == <<runnerVars, editorVars, configVars, slackVars, apiVars, routeVars, streamVars>>

\* what the Slack manager leaves alone
nonSlackVars == <<runnerVars, editorVars, configVars, chatVars, apiVars, routeVars, streamVars>>

\* what apiRequest leaves alone
nonApiVars == <<runnerVars, editorVars, configVars, chatVars, slackVars, routeVars, streamVars>>

\* what the routes of the API definitions leaves alone
nonRouteVars == <<runnerVars, editorVars, configVars, chatVars, slackVars, apiVars, streamVars>>

\* what streamMessage leaves alone
nonStreamVars == <<runnerVars, editorVars, configVars, chatVars, slackVars, apiVars, routeVars>>

(***************************************************************************)
(* Bounds                                                                  *)
(***************************************************************************)
MaxSteps == 2

(***************************************************************************)
(* JavaScript and JSON values.  A scalar is a pair <<type, text>>, so that *)
(* a conversion from one type to another is visible.  A response body is   *)
(* a JSON object (a function from property names to scalars) or null.      *)
(* Strings that the code takes apart (sourceField) are sequences of        *)
(* characters; property names are such sequences too.                      *)
(***************************************************************************)
Undefined == <<"undefined", "">>
JStr(s) == <<"string", s>>
JNum(s) == <<"number", s>>

\* String(v)
JsString(v) == IF v = Undefined THEN Undefined ELSE JStr(v[2])

JNull == [t |-> "null", props |-> <<>>]
JObject(f) == [t |-> "object", props |-> f]

\* JavaScript truthiness of a stored response: objects are truthy, null and
\* a missing entry are not (workflow-test page, line 65)
Truthy(v) == v.t = "object"

\* obj[key]: undefined when the object has no such property
GetProp(obj, key) == IF key \in DOMAIN obj.props THEN obj.props[key] ELSE Undefined

\* target[key] = value on a plain object
SetProp(obj, key, value) ==
  [k \in (DOMAIN obj) \cup {key} |-> IF k = key THEN value ELSE obj[k]]

\* JSON.stringify followed by JSON.parse of a plain object of scalars:
\* properties whose value is undefined are dropped, all others keep their
\* type and text
JsonRoundTrip(obj) ==
  [k \in {x \in DOMAIN obj : obj[x] # Undefined} |-> obj[k]]

Digits == {"0", "1", "2", "3", "4", "5", "6", "7", "8", "9"}
DigitValue(c) ==
  CASE c = "0" -> 0 [] c = "1" -> 1 [] c = "2" -> 2 [] c = "3" -> 3
    [] c = "4" -> 4 [] c = "5" -> 5 [] c = "6" -> 6 [] c = "7" -> 7
    [] c = "8" -> 8 [] c = "9" -> 9

NaN == [nan |-> TRUE, n |-> 0]
Num(n) == [nan |-> FALSE, n |-> n]

\* value of the longest prefix of decimal digits of s, given the value acc
\* of the digits read so far
RECURSIVE DigitsPrefix(_, _)
DigitsPrefix(s, acc) ==
  IF s = <<>> \/ Head(s) \notin Digits THEN acc
  ELSE DigitsPrefix(Tail(s), acc * 10 + DigitValue(Head(s)))

RECURSIVE SkipSpaces(_)
SkipSpaces(s) == IF s # <<>> /\ Head(s) = " " THEN SkipSpaces(Tail(s)) ELSE s

\* parseInt(s) for the strings of the model (no "0x" prefix among them):
\* leading blanks are skipped, a sign is accepted, the longest prefix of
\* digits is read and the rest ignored; NaN when there is no digit
parseInt(s) ==
  LET t == SkipSpaces(s)
      neg == t # <<>> /\ Head(t) = "-"
      u == IF t # <<>> /\ Head(t) \in {"-", "+"} THEN Tail(t) ELSE t
  IN IF u = <<>> \/ Head(u) \notin Digits THEN NaN
     ELSE Num(IF neg THEN 0 - DigitsPrefix(u, 0) ELSE DigitsPrefix(u, 0))

\* s.split('.'): the pieces of s between the dots; cur is the piece being
\* read.  The empty string gives one empty piece.
RECURSIVE SplitFrom(_, _)
SplitFrom(s, cur) ==
  IF s = <<>> THEN <<cur>>
  ELSE IF Head(s) = "." THEN <<cur>> \o SplitFrom(Tail(s), <<>>)
  ELSE SplitFrom(Tail(s), Append(cur, Head(s)))

split(s) == SplitFrom(s, <<>>)

\* the name of the property read for a missing second piece: the key
\* "undefined", which no response of the model has
Key_undefined == <<"u", "n", "d", "e", "f", "i", "n", "e", "d">>
Key_a == <<"a">>
Key_b == <<"b">>
Key_error == <<"e", "r", "r", "o", "r">>

(***************************************************************************)
(* Stored API definitions (localStorage 'apiConfigs') and the workflows    *)
(* the page can load (localStorage 'apiWorkflows').                        *)
(***************************************************************************)
Param(name, isRequired, defaultValue, location) ==
  [name |-> name, isRequired |-> isRequired, defaultValue |-> defaultValue,
   location |-> location]

\* a POST definition: p must be typed or mapped and goes into the query
\* string, q has a default and a placeholder in the endpoint template
ApiA ==
  [id |-> "A", method |-> "POST", endpoint |-> "https://target/{q}/verify",
   headers |-> <<[key |-> "x-client-id", value |-> "demo", isRequired |-> TRUE]>>,
   parameters |-> <<Param("p", TRUE, "", "query"), Param("q", TRUE, "d", "path")>>]

\* a GET definition whose two parameters share the name p: one optional
\* without default, one with a default
ApiG ==
  [id |-> "G", method |-> "GET", endpoint |-> "https://target/lookup",
   headers |-> <<>>,
   parameters |-> <<Param("p", FALSE, "", "body"), Param("p", FALSE, "d", "query")>>]

apis == <<ApiA, ApiG>>

Mapping(sourceField, targetParameter) ==
  [sourceField |-> sourceField, targetParameter |-> targetParameter]

WorkflowStep(apiConfigId, responseMapping) ==
  [apiConfigId |-> apiConfigId, responseMapping |-> responseMapping]

Src_0a == <<"0", ".", "a">>
Src_0b == <<"0", ".", "b">>
Src_1a == <<"1", ".", "a">>

\* the steps a stored workflow may have.  On the POST definition: no
\* mapping, one field of the first step, two mappings onto the same
\* parameter, a mapping from the second step, and the blank mapping that
\* Add Mapping creates followed by a mapping onto the parameter that has a
\* default.  On the GET definition: no mapping, one field of the first step.
\* And a step whose definition "Z" is not among the stored ones.
WorkflowSteps ==
  { WorkflowStep("A", <<>>),
    WorkflowStep("A", <<Mapping(Src_0a, "p")>>),
    WorkflowStep("A", <<Mapping(Src_0a, "p"), Mapping(Src_0b, "p")>>),
    WorkflowStep("A", <<Mapping(Src_1a, "p")>>),
    WorkflowStep("A", <<Mapping(<<>>, ""), Mapping(Src_0a, "q")>>),
    WorkflowStep("G", <<>>),
    WorkflowStep("G", <<Mapping(Src_0a, "p")>>),
    WorkflowStep("Z", <<>>) }

Workflows ==
  UNION {[1..n -> WorkflowSteps] : n \in 0..MaxSteps}

\* the bodies a target API may answer with
Body_full == JObject((Key_a :> JStr("Jane Doe")) @@ (Key_b :> JNum("7")))
Body_error == JObject(Key_error :> JStr("Name is required"))
Body_proxyError == JObject(Key_error :> JStr("Failed to make API request"))

OkBodies == {Body_full, JNull}
ErrorBodies == {Body_error}

\* what the user can have in an input field
InputTexts == {"", "u"}

NoError == ""

(***************************************************************************)
(* WorkflowTestPage                                                        *)
(***************************************************************************)
Range(f) == {f[x] : x \in DOMAIN f}

\* apis.find(api => api.id === id): position of the first match, 0 if none
RECURSIVE FindApi(_, _)
FindApi(id, i) ==
  IF i > Len(apis) THEN 0
  ELSE IF apis[i].id = id THEN i
  ELSE FindApi(id, i + 1)

\* workflow.steps[currentStep] exists (the steps are numbered from 0 in the
\* code and from 1 in the sequence)
HasStep(i) == (i + 1) \in DOMAIN workflow
StepAt(i) == workflow[i + 1]

\* getCurrentApi() is not null
HasCurrentApi ==
  /\ HasStep(currentStep)
  /\ FindApi(StepAt(currentStep).apiConfigId, 1) # 0

getCurrentApi == apis[FindApi(StepAt(currentStep).apiConfigId, 1)]

\* the parameters the form shows an input for
InputShown(param, step) ==
  /\ param.defaultValue = ""
  /\ ~ \E j \in DOMAIN step.responseMapping :
         step.responseMapping[j].targetParameter = param.name

ShownParameters ==
  {getCurrentApi.parameters[j] : j \in
     {k \in DOMAIN getCurrentApi.parameters :
        InputShown(getCurrentApi.parameters[k], StepAt(currentStep))}}

\* value={formData[param.name] || ''}
InputValue(name) == IF name \in DOMAIN formData THEN formData[name] ELSE ""

\* a form without required inputs
FormValid_none == TRUE

\* the browser's check of the form's required inputs on submit
FormValid == \A param \in ShownParameters :
               param.isRequired => InputValue(param.name) # ""

\* ApplyMapping with the mapped value converted to a string
ApplyMapping_coerced(requestData, mapping, responses) ==
  LET parts == split(mapping.sourceField)
      prevStepIndex == parts[1]
      field == IF Len(parts) >= 2 THEN parts[2] ELSE Key_undefined
      index == parseInt(prevStepIndex)
      recorded == ~index.nan /\ index.n \in DOMAIN responses
  IN IF recorded /\ Truthy(responses[index.n])
     THEN SetProp(requestData, mapping.targetParameter,
                  JsString(GetProp(responses[index.n], field)))
     ELSE requestData

\* ApplyMapping that fills the target with '' when the source step has no
\* response
ApplyMapping_blank(requestData, mapping, responses) ==
  LET parts == split(mapping.sourceField)
      prevStepIndex == parts[1]
      field == IF Len(parts) >= 2 THEN parts[2] ELSE Key_undefined
      index == parseInt(prevStepIndex)
      recorded == ~index.nan /\ index.n \in DOMAIN responses
  IN IF recorded /\ Truthy(responses[index.n])
     THEN SetProp(requestData, mapping.targetParameter,
                  GetProp(responses[index.n], field))
     ELSE SetProp(requestData, mapping.targetParameter, JStr(""))

\* one round of the forEach over step.responseMapping
ApplyMapping(requestData, mapping, responses) ==
  LET parts == split(mapping.sourceField)
      prevStepIndex == parts[1]
      field == IF Len(parts) >= 2 THEN parts[2] ELSE Key_undefined
      index == parseInt(prevStepIndex)
      recorded == ~index.nan /\ index.n \in DOMAIN responses
  IN IF recorded /\ Truthy(responses[index.n])
     THEN SetProp(requestData, mapping.targetParameter,
                  GetProp(responses[index.n], field))
     ELSE requestData

RECURSIVE ApplyMappings(_, _, _)
ApplyMappings(requestData, mappings, responses) ==
  IF mappings = <<>> THEN requestData
  ELSE ApplyMappings(ApplyMapping(requestData, Head(mappings), responses),
                     Tail(mappings), responses)

\* requestData of handleSubmit: the form data with the mapped values on top
BuildRequestData(form, step, responses) ==
  ApplyMappings([k \in DOMAIN form |-> JStr(form[k])],
                step.responseMapping, responses)

\* headers.reduce(...): the object of the definition's headers
HeaderObject(headers) ==
  [k \in {headers[j].key : j \in DOMAIN headers} |->
     headers[CHOOSE j \in DOMAIN headers :
               /\ headers[j].key = k
               /\ \A i \in DOMAIN headers : headers[i].key = k => i <= j].value]

NoOutbound == [sent |-> FALSE, method |-> "", hasBody |-> FALSE, body |-> <<>>]
NoReply == [status |-> 0, body |-> JNull]
NoTarget == [reached |-> FALSE, status |-> 0, json |-> FALSE, body |-> JNull]

\* the chat is not mounted
\* useState<string | null>(null) of processing
NoProcessing == "null"

\* the Slack manager is not mounted
SlackClosed ==
  /\ processing = NoProcessing
  /\ slackLoading = FALSE
  /\ channels = {}
  /\ slackStatus = ""
  /\ slackRequests = <<>>
  /\ slackOps = 0

\* a property that an object does not have
Absent == <<"absent">>

NoDetail == [t |-> "absent", text |-> "", list |-> <<>>]
NoResponse == [network |-> "none", status |-> 0, body |-> "none", detail |-> NoDetail]
NoResult == [returned |-> FALSE, data |-> Absent, error |-> Absent]

\* no call of apiRequest is under way
ApiIdle ==
  /\ apiResponse = NoResponse
  /\ apiResult = NoResult

NotSupplied == [supplied |-> FALSE, list |-> <<>>]
NoBody ==
  [kind |-> "none", name |-> Undefined, description |-> Undefined,
   endpoint |-> Undefined, method |-> Undefined, headers |-> NotSupplied,
   parameters |-> NotSupplied]
NoRouteReply == [route |-> "none", id |-> -1, status |-> 0, error |-> ""]

\* no request has reached the routes, the tables are empty
RoutesIdle ==
  /\ apiConfigRows = {}
  /\ apiHeaderRows = {}
  /\ apiParameterRows = {}
  /\ created = 0
  /\ routeRequest = NoBody
  /\ routeReply = NoRouteReply
  /\ deletedIds = {}

\* streamMessage is not called
StreamIdle ==
  /\ streamItems = <<>>
  /\ reads = <<>>
  /\ streamPhase = "idle"
  /\ sources = <<>>
  /\ accumulated = <<>>
  /\ onChunkCalls = <<>>
  /\ onCompleteCalls = <<>>

ChatClosed ==
  /\ messages = <<>>
  /\ input = ""
  /\ product = ""
  /\ products = {}
  /\ chatLoading = FALSE
  /\ chatError = ""
  /\ systemMessage = ""
  /\ chatRequests = <<>>
  /\ asked = 0

\* the workflow editor is not open and nothing is saved
EditorClosed ==
  /\ draft = <<>>
  /\ savedWorkflows = <<>>
  /\ editorOpen = FALSE
  /\ isPartOfWorkflow = {}
  /\ storedIsPartOfWorkflow = {}

\* useState of the two edit pages: { method: 'POST', headers: [],
\* parameters: [] }, and {} for newParameter ("" stands for a missing field)
BlankConfig ==
  [id |-> "", method |-> "POST", endpoint |-> "", headers |-> <<>>,
   parameters |-> <<>>]

NoNewParameter == [name |-> "", type |-> "", location |-> ""]

\* none of the two edit pages is open, the stored definitions are the given
\* ones
ConfigPagesClosed(stored) ==
  /\ dbApiConfigs = stored
  /\ localApiConfigs = stored
  /\ editPage = "none"
  /\ editId = ""
  /\ apiConfig = BlankConfig
  /\ newParameter = NoNewParameter
  /\ putRequests = <<>>

Init ==
  /\ workflow \in Workflows
  /\ currentStep = 0
  /\ stepResponses = <<>>
  /\ formData = <<>>
  /\ loading = FALSE
  /\ error = NoError
  /\ calls = <<>>
  /\ attempt = "idle"
  /\ failedStep = -1
  /\ EditorClosed
  /\ ConfigPagesClosed(apis)
  /\ ChatClosed
  /\ SlackClosed
  /\ ApiIdle
  /\ RoutesIdle
  /\ StreamIdle

\* onChange of a parameter input
ChangeInput(name, text) ==
  /\ HasCurrentApi
  /\ \E param \in ShownParameters : param.name = name
  /\ InputValue(name) # text
  /\ formData' = SetProp(formData, name, text)
  /\ attempt' = "idle"
  /\ UNCHANGED <<workflow, currentStep, stepResponses, loading, error, calls,
                 failedStep>>
  /\ UNCHANGED nonRunnerVars

\* a button that is never disabled
ButtonEnabled_always == TRUE

\* the Execute Step button is enabled
ButtonEnabled == ~loading

\* a click on Execute Step that the form's validation stops: handleSubmit
\* is not called
SubmitInvalid ==
  /\ HasCurrentApi
  /\ ButtonEnabled
  /\ ~FormValid
  /\ attempt = "idle"
  /\ attempt' = "invalid"
  /\ UNCHANGED <<workflow, currentStep, stepResponses, formData, loading,
                 error, calls, failedStep>>
  /\ UNCHANGED nonRunnerVars

\* handleSubmit up to the await of fetch('/api/proxy', ...)
handleSubmit ==
  /\ ButtonEnabled
  /\ HasCurrentApi
  /\ FormValid
  /\ loading' = TRUE
  /\ error' = NoError
  /\ LET currentApi == getCurrentApi
         step == StepAt(currentStep)
         requestData == BuildRequestData(formData, step, stepResponses)
     IN calls' = Append(calls,
          [step |-> currentStep,
           endpoint |-> currentApi.endpoint,
           method |-> currentApi.method,
           headers |-> HeaderObject(currentApi.headers),
           formData |-> formData,
           data |-> JsonRoundTrip(requestData),
           stage |-> "sent",
           outbound |-> NoOutbound,
           upstream |-> "",
           target |-> NoTarget,
           reply |-> NoReply])
  /\ attempt' = "idle"
  /\ UNCHANGED <<workflow, currentStep, stepResponses, formData, failedStep>>
  /\ UNCHANGED nonRunnerVars

\* requestOptions with a body for every method
RequestOptions_body(method, data) ==
  [sent |-> TRUE, method |-> method, hasBody |-> TRUE,
   body |-> JsonRoundTrip(data)]

\* the request the proxy makes to the target: requestOptions
RequestOptions(method, data) ==
  [sent |-> TRUE, method |-> method, hasBody |-> method # "GET",
   body |-> IF method # "GET" THEN JsonRoundTrip(data) ELSE <<>>]

\* what the proxy's fetch meets at the target for an outcome: an answer
\* with a status and a JSON body, no answer at all, or an answer whose body
\* is not JSON
TargetAnswer(outcome, body) ==
  CASE outcome = "2xx" ->
         [reached |-> TRUE, status |-> 200, json |-> TRUE, body |-> body]
    [] outcome = "non2xx" ->
         [reached |-> TRUE, status |-> 400, json |-> TRUE, body |-> body]
    [] outcome = "notjson" ->
         [reached |-> TRUE, status |-> 200, json |-> FALSE, body |-> JNull]
    [] OTHER ->
         NoTarget

\* the proxy answering 200 whatever the target's status was
ProxyReply_ok(outcome, body) ==
  CASE outcome \in {"2xx", "non2xx"} -> [status |-> 200, body |-> body]
    [] OTHER -> [status |-> 500, body |-> Body_proxyError]

\* what the proxy answers for an outcome of its call to the target
ProxyReply(outcome, body) ==
  CASE outcome = "2xx" -> [status |-> 200, body |-> body]
    [] outcome = "non2xx" -> [status |-> 400, body |-> body]
    [] OTHER -> [status |-> 500, body |-> Body_proxyError]

\* POST of the proxy route: it forwards call i to the target, which answers
\* with a JSON body and a status, cannot be reached, or answers without JSON
ProxyPOST(i, outcome, body) ==
  /\ i \in DOMAIN calls
  /\ calls[i].stage = "sent"
  /\ calls' = [calls EXCEPT
       ![i].stage = "answered",
       ![i].outbound = RequestOptions(calls[i].method, calls[i].data),
       ![i].upstream = outcome,
       ![i].target = TargetAnswer(outcome, body),
       ![i].reply = ProxyReply(outcome, body)]
  /\ UNCHANGED <<workflow, currentStep, stepResponses, formData, loading,
                 error, attempt, failedStep>>
  /\ UNCHANGED nonRunnerVars

\* the URL the proxy passes to fetch for a call: the endpoint it was given
FetchedUrl(call) == call.endpoint

RemoveAt(seq, i) == SubSeq(seq, 1, i - 1) \o SubSeq(seq, i + 1, Len(seq))

\* the step of a call failed: the target did not answer 2xx with JSON
CallFailed(call) == call.upstream # "2xx"

\* the resumption without the test for the last step: the index always
\* moves on
handleSubmitResume_always(i) ==
  /\ i \in DOMAIN calls
  /\ calls[i].stage = "answered"
  /\ stepResponses' = SetProp(stepResponses, calls[i].step, calls[i].reply.body)
  /\ currentStep' = currentStep + 1
  /\ formData' = <<>>
  /\ failedStep' = IF CallFailed(calls[i]) THEN calls[i].step ELSE -1
  /\ loading' = FALSE
  /\ calls' = RemoveAt(calls, i)
  /\ UNCHANGED <<workflow, error, attempt>>
  /\ UNCHANGED nonRunnerVars

\* handleSubmit after the await: the proxy's JSON answer has arrived
handleSubmitResume(i) ==
  /\ i \in DOMAIN calls
  /\ calls[i].stage = "answered"
  /\ LET call == calls[i]
         data == call.reply.body
     IN /\ stepResponses' = SetProp(stepResponses, call.step, data)
        /\ IF call.step < Len(workflow) - 1
           THEN /\ currentStep' = currentStep + 1
                /\ formData' = <<>>
           ELSE UNCHANGED <<currentStep, formData>>
        /\ failedStep' = IF CallFailed(call) THEN call.step ELSE -1
  /\ loading' = FALSE
  /\ calls' = RemoveAt(calls, i)
  /\ UNCHANGED <<workflow, error, attempt>>
  /\ UNCHANGED nonRunnerVars

\* the catch without the finally: loading stays as it is
handleSubmitCatch_loading(i, message) ==
  /\ i \in DOMAIN calls
  /\ error' = message
  /\ failedStep' = calls[i].step
  /\ calls' = RemoveAt(calls, i)
  /\ UNCHANGED <<workflow, currentStep, stepResponses, formData, attempt,
                 loading>>
  /\ UNCHANGED nonRunnerVars

\* handleSubmit's catch: fetch rejected (the proxy was not reached) or
\* response.json() threw (the answer was not JSON)
handleSubmitCatch(i, message) ==
  /\ i \in DOMAIN calls
  /\ error' = message
  /\ loading' = FALSE
  /\ failedStep' = calls[i].step
  /\ calls' = RemoveAt(calls, i)
  /\ UNCHANGED <<workflow, currentStep, stepResponses, formData, attempt>>
  /\ UNCHANGED nonRunnerVars

ErrorMessages == {"Failed to fetch", "Unexpected token < in JSON"}

ParameterInputs == {"p", "q"}

UserTypes ==
  \E name \in ParameterInputs, text \in InputTexts : ChangeInput(name, text)

TargetAnswers2xx ==
  \E i \in DOMAIN calls, body \in OkBodies : ProxyPOST(i, "2xx", body)

TargetAnswersNon2xx ==
  \E i \in DOMAIN calls, body \in ErrorBodies : ProxyPOST(i, "non2xx", body)

TargetFails ==
  \E i \in DOMAIN calls, outcome \in {"unreachable", "notjson"} :
    ProxyPOST(i, outcome, JNull)

ProxyAnswerArrives == \E i \in DOMAIN calls : handleSubmitResume(i)

FetchFails ==
  \E i \in DOMAIN calls, message \in ErrorMessages : handleSubmitCatch(i, message)

Next ==
  \/ UserTypes
  \/ SubmitInvalid
  \/ handleSubmit
  \/ TargetAnswers2xx
  \/ TargetAnswersNon2xx
  \/ TargetFails
  \/ ProxyAnswerArrives
  \/ FetchFails

Spec == Init /\ [][Next]_vars

(***************************************************************************)
(* Properties                                                              *)
(***************************************************************************)
LastIndex == Len(workflow) - 1

\* the decimal text of a step index
IndexText(k) == <<"0", "1", "2", "3", "4", "5", "6", "7", "8", "9">>[k + 1]

\* the source path "k.fieldName"
Path(k, fieldName) == <<IndexText(k), ".">> \o fieldName

FieldNames == {Key_a, Key_b}
ParameterNames == {"p", "q", ""}

MappingsOf(call) == StepAt(call.step).responseMapping
ApiOf(call) == apis[FindApi(StepAt(call.step).apiConfigId, 1)]

\* the request data of a call has the parameter name with the value
Sends(call, name, value) == name \in DOMAIN call.data /\ call.data[name] = value

\* every step has a recorded response, each the body of a 2xx answer
AllSucceeded ==
  /\ Len(workflow) >= 1
  /\ DOMAIN stepResponses = 0..LastIndex
  /\ \A i \in DOMAIN stepResponses : stepResponses[i] \in OkBodies

\* C1: when every step of the workflow has succeeded and has its response
\* recorded, the runner is Finished: no further step execution happens, so
\* no call is issued from that state.
C1_FinishedRunsNothing == AllSucceeded /\ failedStep = -1 => calls = <<>>

\* C2: when the call of step i ends in failure (the target answered non-2xx,
\* could not be reached or did not answer JSON, or the proxy was not
\* reached), the current step index stays at i, no response is recorded for
\* the step and nothing else is started.
C2_FailedStepParks ==
  [][\A i \in DOMAIN calls :
       CallFailed(calls[i]) /\ Len(calls') < Len(calls)
         => /\ currentStep' = currentStep
            /\ stepResponses' = stepResponses
            /\ calls' = <<>>]_vars

\* C3: after a failed attempt of step i the runner is still at step i, so
\* that the next run is an attempt of the same step i (and the responses of
\* the earlier steps are all still recorded).
C3_RetrySameStep ==
  failedStep # -1 =>
    /\ currentStep = failedStep
    /\ \A i \in DOMAIN calls : calls[i].step = failedStep
    /\ \A k \in 0..(failedStep - 1) : k \in DOMAIN stepResponses

\* a mapping of the step is followed by another one onto the same parameter
Overridden(mappings, j) ==
  \E j2 \in DOMAIN mappings :
    j2 > j /\ mappings[j2].targetParameter = mappings[j].targetParameter

\* the mapping reads field fieldName of the recorded JSON object of step k
ReadsField(mapping, k, fieldName) ==
  /\ mapping.sourceField = Path(k, fieldName)
  /\ k \in DOMAIN stepResponses
  /\ stepResponses[k].t = "object"
  /\ fieldName \in DOMAIN stepResponses[k].props

\* C4 as stated: for every mapping "k.fieldName" of the step being run whose
\* source step has a recorded response with that field, the request data has
\* targetParameter with the value StepResponse[k][fieldName], unconverted.
C4_EveryMappingSent ==
  \A i \in DOMAIN calls : \A j \in DOMAIN MappingsOf(calls[i]) :
    \A k \in 0..LastIndex, fieldName \in FieldNames :
      ReadsField(MappingsOf(calls[i])[j], k, fieldName)
        => Sends(calls[i], MappingsOf(calls[i])[j].targetParameter,
                 stepResponses[k].props[fieldName])

\* C4 amended: the same for every such mapping that is the last one of the
\* step onto its target parameter: the request data has targetParameter with
\* the type and text of StepResponse[k][fieldName].
C4_LastMappingSent ==
  \A i \in DOMAIN calls : \A j \in DOMAIN MappingsOf(calls[i]) :
    \A k \in 0..LastIndex, fieldName \in FieldNames :
      /\ ReadsField(MappingsOf(calls[i])[j], k, fieldName)
      /\ ~Overridden(MappingsOf(calls[i]), j)
      => Sends(calls[i], MappingsOf(calls[i])[j].targetParameter,
               stepResponses[k].props[fieldName])

\* step 2 is being run with name mapped from "0.holder_name": parameter p
\* mapped from "0.a" is sent as "Jane Doe", and a second step's parameter
\* mapped from the number 7 is sent as a number
C4_Witness ==
  \E i \in DOMAIN calls :
    /\ calls[i].step = 1
    /\ MappingsOf(calls[i]) = <<Mapping(Src_0a, "p")>>
    /\ stepResponses[0] = Body_full
    /\ Sends(calls[i], "p", JStr("Jane Doe"))

\* the source step of a mapping has a recorded response
SourceRecorded(mapping) ==
  \E k \in DOMAIN stepResponses :
    /\ Len(mapping.sourceField) >= 2
    /\ mapping.sourceField[1] = IndexText(k)
    /\ mapping.sourceField[2] = "."

\* C5: a mapping whose source step has no recorded response adds nothing to
\* the request: unless another mapping of the step supplies the same
\* parameter, the request that is issued does not have the target parameter;
\* this holds for every attempt, first or repeated.
C5_UnrecordedSourceOmitted ==
  \A i \in DOMAIN calls : \A j \in DOMAIN MappingsOf(calls[i]) :
    /\ ~SourceRecorded(MappingsOf(calls[i])[j])
    /\ ~ \E j2 \in DOMAIN MappingsOf(calls[i]) :
           /\ MappingsOf(calls[i])[j2].targetParameter =
                MappingsOf(calls[i])[j].targetParameter
           /\ SourceRecorded(MappingsOf(calls[i])[j2])
    => MappingsOf(calls[i])[j].targetParameter \notin DOMAIN calls[i].data

\* a repeated attempt of a step is in flight whose mapping onto p reads a
\* step without recorded response, and its request has no p
C5_Witness ==
  \E i \in DOMAIN calls :
    /\ failedStep = calls[i].step
    /\ calls[i].stage = "answered"
    /\ \E j \in DOMAIN MappingsOf(calls[i]) :
         /\ ~SourceRecorded(MappingsOf(calls[i])[j])
         /\ MappingsOf(calls[i])[j].targetParameter = "p"
    /\ "p" \notin DOMAIN calls[i].data

\* the current step has a required parameter without default, mapping or
\* form value
MissingRequired ==
  /\ HasCurrentApi
  /\ \E j \in DOMAIN getCurrentApi.parameters :
       LET param == getCurrentApi.parameters[j]
       IN /\ param.isRequired
          /\ param.defaultValue = ""
          /\ ~ \E m \in DOMAIN StepAt(currentStep).responseMapping :
                 StepAt(currentStep).responseMapping[m].targetParameter = param.name
          /\ (param.name \notin DOMAIN formData \/ formData[param.name] = "")

MappedValues(call, name) ==
  {stepResponses[k].props[f] : <<k, f>> \in
     {kf \in (0..LastIndex) \X FieldNames :
        \E j \in DOMAIN MappingsOf(call) :
          /\ MappingsOf(call)[j].targetParameter = name
          /\ ReadsField(MappingsOf(call)[j], kf[1], kf[2])}}

\* the configured defaults of a parameter name in a call's API definition
DefaultValues(call, name) ==
  {ApiOf(call).parameters[j].defaultValue : j \in
     {x \in DOMAIN ApiOf(call).parameters :
        /\ ApiOf(call).parameters[x].name = name
        /\ ApiOf(call).parameters[x].defaultValue # ""}}

\* C7, user over mapped: a name with a user-entered value is sent with that
\* value, and a name without one that has a mapped value is sent with a
\* mapped value.
C7_UserThenMapped ==
  \A i \in DOMAIN calls : \A name \in ParameterNames :
    /\ name \in DOMAIN calls[i].formData
         => Sends(calls[i], name, JStr(calls[i].formData[name]))
    /\ name \notin DOMAIN calls[i].formData /\ MappedValues(calls[i], name) # {}
         => name \in DOMAIN calls[i].data

\* C7: the value sent for a parameter name is the user-entered one when
\* there is one, else a mapped one when there is one, else the configured
\* default when there is one.
C7_Precedence ==
  \A i \in DOMAIN calls : \A name \in ParameterNames :
    /\ name \in DOMAIN calls[i].formData
         => Sends(calls[i], name, JStr(calls[i].formData[name]))
    /\ name \notin DOMAIN calls[i].formData /\ MappedValues(calls[i], name) # {}
         => name \in DOMAIN calls[i].data
    /\ /\ name \notin DOMAIN calls[i].formData
       /\ MappedValues(calls[i], name) = {}
       /\ ~ \E j \in DOMAIN MappingsOf(calls[i]) :
              MappingsOf(calls[i])[j].targetParameter = name
       /\ DefaultValues(calls[i], name) # {}
       => /\ name \in DOMAIN calls[i].data
          /\ calls[i].data[name] \in {JStr(d) : d \in DefaultValues(calls[i], name)}

\* C8: a parameter of the step's API definition with a configured default,
\* no mapping and no user-entered value is sent with the default value.
C8_DefaultSent ==
  \A i \in DOMAIN calls : \A j \in DOMAIN ApiOf(calls[i]).parameters :
    LET param == ApiOf(calls[i]).parameters[j]
    IN /\ param.defaultValue # ""
       /\ param.name \notin DOMAIN calls[i].formData
       /\ ~ \E m \in DOMAIN MappingsOf(calls[i]) :
              MappingsOf(calls[i])[m].targetParameter = param.name
       => Sends(calls[i], param.name, JStr(param.defaultValue))

\* C9: the request the proxy makes to the target has no body when the
\* method is GET, whatever data the step supplies, and for any other method
\* its body is the JSON encoding of the supplied data.
C9_GetWithoutBody ==
  \A i \in DOMAIN calls :
    calls[i].outbound.sent =>
      /\ calls[i].outbound.method = calls[i].method
      /\ IF calls[i].method = "GET"
         THEN ~calls[i].outbound.hasBody /\ calls[i].outbound.body = <<>>
         ELSE calls[i].outbound.hasBody /\ calls[i].outbound.body = calls[i].data

\* a GET step that supplies a value for its body-located parameter has been
\* forwarded to the target
C9_Witness ==
  \E i \in DOMAIN calls :
    /\ calls[i].outbound.sent
    /\ calls[i].method = "GET"
    /\ "p" \in DOMAIN calls[i].data
    /\ ~calls[i].outbound.hasBody

\* C10: at most one step request is in flight at any time, and while one is
\* in flight the runner is loading.
C10_OneCallInFlight == Len(calls) <= 1 /\ (calls # <<>> => loading)

\* the request of the second step is in flight, after that of the first one
\* has completed and while the user types
C10_Witness ==
  /\ Len(calls) = 1
  /\ calls[1].step = 1
  /\ 0 \in DOMAIN stepResponses
  /\ formData # calls[1].formData

\* the mapper, run for a call, finds the recorded response of step k under
\* the index of the mapping's source
ReadsResponse(mapping, k) ==
  /\ k \in DOMAIN stepResponses
  /\ Len(mapping.sourceField) >= 1
  /\ mapping.sourceField[1] = IndexText(k)
  /\ (Len(mapping.sourceField) >= 2 => mapping.sourceField[2] = ".")

\* C11: in every execution of the step with index j the mapper reads
\* StepResponse entries of indices strictly smaller than j only, and the
\* responses of all the steps before j are recorded when the request data of
\* step j is computed.
C11_ReadsEarlierStepsOnly ==
  \A i \in DOMAIN calls :
    /\ \A m \in DOMAIN MappingsOf(calls[i]) : \A k \in 0..LastIndex :
         ReadsResponse(MappingsOf(calls[i])[m], k) => k < calls[i].step
    /\ \A k \in 0..(calls[i].step - 1) : k \in DOMAIN stepResponses

\* C11, second half alone: the responses of all the steps before j are
\* recorded when the request data of step j is computed.
C11_EarlierStepsRecorded ==
  \A i \in DOMAIN calls :
    \A k \in 0..(calls[i].step - 1) : k \in DOMAIN stepResponses

(***************************************************************************)
(* The workflow editor (WorkflowPage).  draft is workflow.steps of the     *)
(* page, savedWorkflows is localStorage 'apiWorkflows' (the steps of each  *)
(* saved workflow), editorOpen tells whether the page is mounted.  Step    *)
(* and mapping indices are numbered from 0 as in the code.                 *)
(***************************************************************************)
MaxDraftSteps == 2
MaxMappings == 1

\* the options of the "Select API" control: the stored definitions
ApiIds == {apis[i].id : i \in DOMAIN apis}

\* what can be typed into the "Response field path" control
SourceTexts == {<<>>, Src_0a, Src_1a}

\* what can be typed into the "Target parameter" control
TargetTexts == {"", "p"}

\* a step as the editor holds it
DraftStep(apiConfigId, order, responseMapping) ==
  [apiConfigId |-> apiConfigId, order |-> order,
   responseMapping |-> responseMapping]

\* steps.map((step, i) => i === index ? changed : step)
ReplaceAt(seq, index, changed) == [seq EXCEPT ![index + 1] = changed]

\* what localStorage 'apiWorkflows' holds when the page is opened: nothing,
\* a workflow on the POST definition, or that one and a workflow on both
\* definitions
PriorWorkflows ==
  { <<>>,
    << <<DraftStep("A", 1, <<>>)>> >>,
    << <<DraftStep("A", 1, <<>>)>>,
       <<DraftStep("G", 1, <<>>), DraftStep("A", 2, <<>>)>> >> }

\* savedWorkflows.some(workflow => workflow.steps.some(step =>
\* step.apiConfigId === id))
UsedBySaved(id) ==
  \E w \in DOMAIN savedWorkflows : \E i \in DOMAIN savedWorkflows[w] :
    savedWorkflows[w][i].apiConfigId = id

\* the mark read from the stored record instead
MarkApis_stored == storedIsPartOfWorkflow

\* the useEffect of the page: every stored definition gets isPartOfWorkflow
\* from the saved workflows, over whatever the stored record has
MarkApis == {id \in ApiIds : UsedBySaved(id)}

\* the page is opened: workflow.steps starts empty
InitEditor ==
  /\ draft = <<>>
  /\ savedWorkflows \in PriorWorkflows
  /\ storedIsPartOfWorkflow \in SUBSET ApiIds
  /\ isPartOfWorkflow = MarkApis
  /\ editorOpen = TRUE
  /\ workflow = <<>>
  /\ currentStep = 0
  /\ stepResponses = <<>>
  /\ formData = <<>>
  /\ loading = FALSE
  /\ error = NoError
  /\ calls = <<>>
  /\ attempt = "idle"
  /\ failedStep = -1
  /\ ConfigPagesClosed(apis)
  /\ ChatClosed
  /\ SlackClosed
  /\ ApiIdle
  /\ RoutesIdle
  /\ StreamIdle

\* the "Add Step" button
handleAddStep ==
  /\ editorOpen
  /\ Len(draft) < MaxDraftSteps
  /\ draft' = Append(draft, DraftStep("", Len(draft) + 1, <<>>))
  /\ UNCHANGED <<savedWorkflows, editorOpen, isPartOfWorkflow,
                 storedIsPartOfWorkflow>>
  /\ UNCHANGED nonEditorVars

\* the X button of the step at index
handleRemoveStep(index) ==
  /\ editorOpen
  /\ index \in 0..(Len(draft) - 1)
  /\ draft' = RemoveAt(draft, index + 1)
  /\ UNCHANGED <<savedWorkflows, editorOpen, isPartOfWorkflow,
                 storedIsPartOfWorkflow>>
  /\ UNCHANGED nonEditorVars

\* the option of a definition is disabled: the definition carries the mark
\* and no step of the workflow being composed uses it
OptionDisabled_never(id) == FALSE

OptionDisabled(id) ==
  /\ id \in isPartOfWorkflow
  /\ ~ \E i \in DOMAIN draft : draft[i].apiConfigId = id

\* another option of the "Select API" control of the step at index is
\* chosen ("" is the option "Select an API")
handleStepChange(index, apiConfigId) ==
  /\ editorOpen
  /\ index \in 0..(Len(draft) - 1)
  /\ apiConfigId # draft[index + 1].apiConfigId
  /\ ~OptionDisabled(apiConfigId)
  /\ draft' = ReplaceAt(draft, index,
                 [draft[index + 1] EXCEPT !.apiConfigId = apiConfigId,
                                          !.responseMapping = <<>>])
  /\ UNCHANGED <<savedWorkflows, editorOpen, isPartOfWorkflow,
                 storedIsPartOfWorkflow>>
  /\ UNCHANGED nonEditorVars

\* the mapping controls are rendered for every step but the first
MappingsShown(stepIndex) ==
  stepIndex > 0 /\ stepIndex \in 0..(Len(draft) - 1)

\* the "Add Mapping" button of the step at stepIndex
handleAddMapping(stepIndex) ==
  /\ editorOpen
  /\ MappingsShown(stepIndex)
  /\ Len(draft[stepIndex + 1].responseMapping) < MaxMappings
  /\ draft' = ReplaceAt(draft, stepIndex,
                 [draft[stepIndex + 1] EXCEPT !.responseMapping =
                    Append(@, Mapping(<<>>, ""))])
  /\ UNCHANGED <<savedWorkflows, editorOpen, isPartOfWorkflow,
                 storedIsPartOfWorkflow>>
  /\ UNCHANGED nonEditorVars

\* text entered into one of the two controls of a mapping
handleMappingChange(stepIndex, mappingIndex, field, value) ==
  /\ editorOpen
  /\ MappingsShown(stepIndex)
  /\ mappingIndex \in 0..(Len(draft[stepIndex + 1].responseMapping) - 1)
  /\ draft[stepIndex + 1].responseMapping[mappingIndex + 1][field] # value
  /\ draft' = ReplaceAt(draft, stepIndex,
                 [draft[stepIndex + 1] EXCEPT
                    !.responseMapping[mappingIndex + 1][field] = value])
  /\ UNCHANGED <<savedWorkflows, editorOpen, isPartOfWorkflow,
                 storedIsPartOfWorkflow>>
  /\ UNCHANGED nonEditorVars

\* the X button of a mapping
handleRemoveMapping(stepIndex, mappingIndex) ==
  /\ editorOpen
  /\ MappingsShown(stepIndex)
  /\ mappingIndex \in 0..(Len(draft[stepIndex + 1].responseMapping) - 1)
  /\ draft' = ReplaceAt(draft, stepIndex,
                 [draft[stepIndex + 1] EXCEPT !.responseMapping =
                    RemoveAt(@, mappingIndex + 1)])
  /\ UNCHANGED <<savedWorkflows, editorOpen, isPartOfWorkflow,
                 storedIsPartOfWorkflow>>
  /\ UNCHANGED nonEditorVars

\* the browser submits the form only when every required control has a
\* value: each step has an API selected
EditorFormValid == \A i \in DOMAIN draft : draft[i].apiConfigId # ""

\* "Create Workflow": the workflow is appended to localStorage as it is and
\* the page is left
saveWorkflow ==
  /\ editorOpen
  /\ EditorFormValid
  /\ savedWorkflows' = Append(savedWorkflows, draft)
  /\ editorOpen' = FALSE
  /\ UNCHANGED <<draft, isPartOfWorkflow, storedIsPartOfWorkflow>>
  /\ UNCHANGED nonEditorVars

StepIndices == 0..(MaxDraftSteps - 1)
MappingIndices == 0..(MaxMappings - 1)

RemovesStep == \E index \in StepIndices : handleRemoveStep(index)

SelectsApi ==
  \E index \in StepIndices : \E apiConfigId \in ApiIds \cup {""} :
    handleStepChange(index, apiConfigId)

AddsMapping == \E stepIndex \in StepIndices : handleAddMapping(stepIndex)

TypesSource ==
  \E stepIndex \in StepIndices : \E mappingIndex \in MappingIndices :
    \E value \in SourceTexts :
      handleMappingChange(stepIndex, mappingIndex, "sourceField", value)

TypesTarget ==
  \E stepIndex \in StepIndices : \E mappingIndex \in MappingIndices :
    \E value \in TargetTexts :
      handleMappingChange(stepIndex, mappingIndex, "targetParameter", value)

RemovesMapping ==
  \E stepIndex \in StepIndices : \E mappingIndex \in MappingIndices :
    handleRemoveMapping(stepIndex, mappingIndex)

NextEditor ==
  \/ handleAddStep
  \/ RemovesStep
  \/ SelectsApi
  \/ AddsMapping
  \/ TypesSource
  \/ TypesTarget
  \/ RemovesMapping
  \/ saveWorkflow

SpecEditor == InitEditor /\ [][NextEditor]_vars

\* the step index a source path names, as the runner reads it
SourceStepIndex(mapping) == parseInt(split(mapping.sourceField)[1])

\* the mapping of the step at position p (from 0) names an earlier step
RefersToEarlierStep(mapping, p) ==
  /\ ~SourceStepIndex(mapping).nan
  /\ SourceStepIndex(mapping).n >= 0
  /\ SourceStepIndex(mapping).n < p

\* C12: in every workflow saved by the editor, each response mapping of the
\* step at position p has a source path whose step index is a number that
\* names a step at a position strictly before p.
C12_SavedMappingsReferEarlier ==
  \A w \in DOMAIN savedWorkflows :
    \A i \in DOMAIN savedWorkflows[w] :
      \A m \in DOMAIN savedWorkflows[w][i].responseMapping :
        RefersToEarlierStep(savedWorkflows[w][i].responseMapping[m], i - 1)

\* the order numbers of the steps are 1, 2, ..., n in sequence position
OrdersContiguous(steps) == \A i \in DOMAIN steps : steps[i].order = i

\* C13: the order numbers of the steps the editor holds, and of the steps
\* of every saved workflow, are exactly 1, 2, ..., n in sequence position.
C13_OrdersContiguous ==
  /\ OrdersContiguous(draft)
  /\ \A w \in DOMAIN savedWorkflows : OrdersContiguous(savedWorkflows[w])

\* the first step, if there is one, has no response mapping
FirstStepUnmapped(steps) == steps # <<>> => steps[1].responseMapping = <<>>

\* C14: in every workflow the editor holds or has saved, the first step has
\* an empty set of response mappings.
C14_FirstStepUnmapped ==
  /\ FirstStepUnmapped(draft)
  /\ \A w \in DOMAIN savedWorkflows : FirstStepUnmapped(savedWorkflows[w])

\* the run has reached a step whose API definition is not among the stored
\* ones (it was deleted after the workflow was saved)
DanglingStepReached == HasStep(currentStep) /\ ~HasCurrentApi

\* C15: when a run reaches a step that references a deleted API definition,
\* the failed lookup is surfaced to the caller: the runner reports an error.
C15_DanglingStepReported == DanglingStepReached => error # NoError

\* C16: when the target answers a workflow step with a non-2xx status, the
\* completion of the step's call reports an error to the caller.
C16_Non2xxReportsError ==
  [][\A i \in DOMAIN calls :
       calls[i].upstream = "non2xx" /\ Len(calls') < Len(calls)
         => error' # NoError]_vars

\* the call completes now with the JSON body of a 2xx answer (the answer
\* of the proxy has reached the page: the step has not failed)
Succeeds(i) ==
  /\ calls[i].stage = "answered"
  /\ calls[i].upstream = "2xx"
  /\ Len(calls') < Len(calls)
  /\ failedStep' = -1

\* the response of the call is stored under the index of its step
StoresResponse(i) ==
  /\ calls[i].step \in DOMAIN stepResponses'
  /\ stepResponses'[calls[i].step] = calls[i].reply.body

\* the runner offers a step for execution
StepOffered == HasCurrentApi /\ ButtonEnabled

\* C18: when the call of a step succeeds, its response is stored under the
\* step's index; if the step is not the last one the current step index
\* increases by exactly one and the input form becomes empty; if it is the
\* last one the index does not move and the runner is Finished: it offers
\* no step for execution any more.
C18_SuccessAdvancesOrFinishes ==
  [][\A i \in DOMAIN calls :
       Succeeds(i) =>
         /\ StoresResponse(i)
         /\ IF calls[i].step < LastIndex
            THEN currentStep' = currentStep + 1 /\ formData' = <<>>
            ELSE currentStep' = currentStep /\ ~StepOffered']_vars

\* C18 without the Finished state: the response is stored, the index
\* increases by one and the form is emptied after a step that is not the
\* last, and the index stays after the last step.
C18_SuccessStoresAndAdvances ==
  [][\A i \in DOMAIN calls :
       Succeeds(i) =>
         /\ StoresResponse(i)
         /\ IF calls[i].step < LastIndex
            THEN currentStep' = currentStep + 1 /\ formData' = <<>>
            ELSE currentStep' = currentStep /\ currentStep = LastIndex]_vars

\* C19: in the request the proxy makes for a step, a value supplied for a
\* parameter with location query or path changes the URL (it is appended as
\* a query string, or replaces the placeholder of the endpoint template) and
\* is not in the JSON payload; a value supplied for a parameter with
\* location body is in the JSON payload of a request that has one.
C19_ValuesByLocation ==
  \A i \in DOMAIN calls :
    calls[i].outbound.sent =>
      \A j \in DOMAIN ApiOf(calls[i]).parameters :
        LET param == ApiOf(calls[i]).parameters[j]
        IN param.name \in DOMAIN calls[i].data =>
             IF param.location \in {"query", "path"}
             THEN /\ FetchedUrl(calls[i]) # ApiOf(calls[i]).endpoint
                  /\ param.name \notin DOMAIN calls[i].outbound.body
             ELSE calls[i].outbound.hasBody =>
                    Sends([data |-> calls[i].outbound.body], param.name,
                          calls[i].data[param.name])

(***************************************************************************)
(* The two pages that edit an API definition: EditApiConfig                *)
(* (api-config/[id], reads and writes through /api/api-configs/[id]) and   *)
(* EditApiConfigPage (api-config/edit/[id], reads and writes localStorage  *)
(* 'apiConfigs').  Parameter indices are numbered from 0 as in the code.   *)
(***************************************************************************)
MaxParameters == 3

\* a definition without parameters
ApiE ==
  [id |-> "E", method |-> "GET", endpoint |-> "https://target/status",
   headers |-> <<>>, parameters |-> <<>>]

\* the definitions stored when the pages are opened: parameter names are
\* distinct within each
StoredConfigs == <<ApiA, ApiE>>

StoredIds == {StoredConfigs[i].id : i \in DOMAIN StoredConfigs}

\* what the controls of a new parameter and of the endpoint can be set to
NameTexts == {"", "p", "r"}
TypeOptions == {"", "string"}
LocationOptions == {"", "query"}
EndpointTexts == {"https://target/{q}/verify", "https://target/v2"}

\* configs.find(c => c.id === id), and findUnique({where: {id}}): position
\* of the definition, 0 if there is none
RECURSIVE FindConfig(_, _, _)
FindConfig(configs, id, i) ==
  IF i > Len(configs) THEN 0
  ELSE IF configs[i].id = id THEN i
  ELSE FindConfig(configs, id, i + 1)

\* EditApiConfig has been opened for id: GET of the route has answered the
\* definition with its headers and parameters, the page keeps it in
\* apiConfig
fetchApiConfig(id) ==
  /\ FindConfig(dbApiConfigs, id, 1) # 0
  /\ editPage = "db"
  /\ editId = id
  /\ apiConfig = dbApiConfigs[FindConfig(dbApiConfigs, id, 1)]

\* EditApiConfigPage has been opened for id: the definition has been read
\* from localStorage
loadApiConfig(id) ==
  /\ FindConfig(localApiConfigs, id, 1) # 0
  /\ editPage = "local"
  /\ editId = id
  /\ apiConfig = localApiConfigs[FindConfig(localApiConfigs, id, 1)]

\* one of the two pages has been opened for a stored definition
InitConfig ==
  /\ dbApiConfigs = StoredConfigs
  /\ localApiConfigs = StoredConfigs
  /\ \E id \in StoredIds : fetchApiConfig(id) \/ loadApiConfig(id)
  /\ newParameter = NoNewParameter
  /\ putRequests = <<>>
  /\ EditorClosed
  /\ ChatClosed
  /\ workflow = <<>>
  /\ currentStep = 0
  /\ stepResponses = <<>>
  /\ formData = <<>>
  /\ loading = FALSE
  /\ error = NoError
  /\ calls = <<>>
  /\ attempt = "idle"
  /\ failedStep = -1
  /\ SlackClosed
  /\ ApiIdle
  /\ RoutesIdle
  /\ StreamIdle

\* one of the two pages is open
PageOpen == editPage \in {"db", "local"}

\* a control of the new parameter is set; EditApiConfigPage has no control
\* for the location
setNewParameter(field, value) ==
  /\ PageOpen
  /\ field = "location" => editPage = "db"
  /\ newParameter[field] # value
  /\ newParameter' = [newParameter EXCEPT ![field] = value]
  /\ UNCHANGED <<dbApiConfigs, localApiConfigs, editPage, editId, apiConfig,
                 putRequests>>
  /\ UNCHANGED nonConfigVars

\* text entered into the Endpoint control
handleEndpointChange(value) ==
  /\ PageOpen
  /\ apiConfig.endpoint # value
  /\ apiConfig' = [apiConfig EXCEPT !.endpoint = value]
  /\ UNCHANGED <<dbApiConfigs, localApiConfigs, editPage, editId,
                 newParameter, putRequests>>
  /\ UNCHANGED nonConfigVars

\* the condition under which addParameter does anything: name and type are
\* set, and on EditApiConfig the location too
NewParameterComplete ==
  /\ newParameter.name # ""
  /\ newParameter.type # ""
  /\ editPage = "db" => newParameter.location # ""

\* the Add button of the parameters
addParameter ==
  /\ PageOpen
  /\ NewParameterComplete
  /\ Len(apiConfig.parameters) < MaxParameters
  /\ apiConfig' = [apiConfig EXCEPT !.parameters =
                     Append(@, Param(newParameter.name, TRUE, "",
                                     newParameter.location))]
  /\ newParameter' = NoNewParameter
  /\ UNCHANGED <<dbApiConfigs, localApiConfigs, editPage, editId, putRequests>>
  /\ UNCHANGED nonConfigVars

\* the Remove button of the parameter at index
removeParameter(index) ==
  /\ PageOpen
  /\ index \in 0..(Len(apiConfig.parameters) - 1)
  /\ apiConfig' = [apiConfig EXCEPT !.parameters = RemoveAt(@, index + 1)]
  /\ UNCHANGED <<dbApiConfigs, localApiConfigs, editPage, editId,
                 newParameter, putRequests>>
  /\ UNCHANGED nonConfigVars

\* router.push('/dashboard'): the page is left and its state is gone; how
\* tells whether it was left by the Back button ("left") or after a
\* submission ("saved")
PageClosed(how) ==
  /\ editPage' = how
  /\ editId' = ""
  /\ apiConfig' = BlankConfig
  /\ newParameter' = NoNewParameter

\* the "Back to Dashboard" button
BackToDashboard ==
  /\ PageOpen
  /\ PageClosed("left")
  /\ UNCHANGED <<dbApiConfigs, localApiConfigs, putRequests>>
  /\ UNCHANGED nonConfigVars

\* configs.map(c => c.id === id ? edited : c)
ReplaceConfig(configs, id, edited) ==
  [i \in DOMAIN configs |-> IF configs[i].id = id THEN edited ELSE configs[i]]

\* "Save Changes" of EditApiConfigPage: the definition with the page's id
\* is replaced in localStorage and the page is left
saveApiConfigPage ==
  /\ editPage = "local"
  /\ localApiConfigs' = ReplaceConfig(localApiConfigs, editId, apiConfig)
  /\ PageClosed("saved")
  /\ UNCHANGED <<dbApiConfigs, putRequests>>
  /\ UNCHANGED nonConfigVars

\* "Update API Configuration" of EditApiConfig: the definition is sent to
\* the route with method PUT (one request is followed at a time)
putApiConfig ==
  /\ editPage = "db"
  /\ putRequests = <<>>
  /\ putRequests' = <<[id |-> editId, body |-> apiConfig]>>
  /\ UNCHANGED <<dbApiConfigs, localApiConfigs, editPage, editId, apiConfig,
                 newParameter>>
  /\ UNCHANGED nonConfigVars

\* the handlers the route /api/api-configs/[id] exports
RouteMethods == {"DELETE", "GET"}

\* the status of the route's answer to a request that no handler throws on:
\* a method without handler is answered 405
RouteStatus(method) == IF method \in RouteMethods THEN 200 ELSE 405

\* response.ok
ResponseOk(status) == status \in 200..299

\* the answer to the PUT request arrives: on a status that is not ok the
\* page throws, logs the error and stays; the table is written by no handler
\* of the route for this method
putApiConfigAnswered ==
  /\ putRequests # <<>>
  /\ putRequests' = Tail(putRequests)
  /\ IF ResponseOk(RouteStatus("PUT")) /\ editPage = "db"
     THEN PageClosed("saved")
     ELSE UNCHANGED <<editPage, editId, apiConfig, newParameter>>
  /\ UNCHANGED <<dbApiConfigs, localApiConfigs>>
  /\ UNCHANGED nonConfigVars

ParameterIndices == 0..(MaxParameters - 1)

TypesParameterName == \E value \in NameTexts : setNewParameter("name", value)

SelectsParameterType ==
  \E value \in TypeOptions : setNewParameter("type", value)

SelectsParameterLocation ==
  \E value \in LocationOptions : setNewParameter("location", value)

TypesEndpoint == \E value \in EndpointTexts : handleEndpointChange(value)

RemovesParameter == \E index \in ParameterIndices : removeParameter(index)

NextConfig ==
  \/ TypesParameterName
  \/ SelectsParameterType
  \/ SelectsParameterLocation
  \/ TypesEndpoint
  \/ addParameter
  \/ RemovesParameter
  \/ BackToDashboard
  \/ saveApiConfigPage
  \/ putApiConfig
  \/ putApiConfigAnswered

SpecConfig == InitConfig /\ [][NextConfig]_vars

\* the record with the id has become the edited definition and kept the id,
\* every other record is as before
UpdatedInPlace(before, after, id, edited) ==
  /\ Len(after) = Len(before)
  /\ \E i \in DOMAIN before : before[i].id = id
  /\ \A i \in DOMAIN before :
       IF before[i].id = id
       THEN after[i] = edited /\ after[i].id = id
       ELSE after[i] = before[i]

\* the submission of EditApiConfigPage is carried out
LocalSubmitDone == editPage = "local" /\ editPage' = "saved"

\* the submission of EditApiConfig is carried out: its request is answered
PutDone == putRequests # <<>> /\ putRequests' = Tail(putRequests)

\* C17: when the edit form for a definition id is submitted, the stored
\* record with that id becomes the edited definition, keeps its id, and
\* every other stored definition is unchanged; for the page that stores in
\* localStorage and for the page that stores through the route.
C17_UpdatedInPlace ==
  [][/\ LocalSubmitDone =>
          UpdatedInPlace(localApiConfigs, localApiConfigs', editId, apiConfig)
     /\ PutDone =>
          UpdatedInPlace(dbApiConfigs, dbApiConfigs', putRequests[1].id,
                         putRequests[1].body)]_vars

\* C17 for EditApiConfigPage alone: the record in localStorage is updated
\* in place.
C17_LocalUpdatedInPlace ==
  [][LocalSubmitDone =>
       UpdatedInPlace(localApiConfigs, localApiConfigs', editId, apiConfig)]_vars

\* the names of the parameters are pairwise distinct
NamesDistinct(parameters) ==
  \A i, j \in DOMAIN parameters :
    i # j => parameters[i].name # parameters[j].name

\* C20: the parameter names of the definition held by an open edit page are
\* pairwise distinct.
C20_ParameterNamesDistinct == PageOpen => NamesDistinct(apiConfig.parameters)

\* the step at position i gets another API definition selected
SelectedNow(i) ==
  /\ i \in DOMAIN draft
  /\ Len(draft') = Len(draft)
  /\ draft'[i].apiConfigId # draft[i].apiConfigId
  /\ draft'[i].apiConfigId # ""

\* C21: while the workflow editor is open, the definitions marked in use
\* are exactly those that a step of a saved workflow references, whatever
\* flag their stored record carries, and a definition in use is selected for
\* a step only when the workflow being edited already has a step using it.
C21_InUseMark ==
  [][/\ editorOpen => isPartOfWorkflow = {id \in ApiIds : UsedBySaved(id)}
     /\ \A i \in DOMAIN draft :
          SelectedNow(i) /\ UsedBySaved(draft'[i].apiConfigId) =>
            \E j \in DOMAIN draft :
              draft[j].apiConfigId = draft'[i].apiConfigId]_vars

\* a definition is in use though its stored record does not say so, another
\* one is not in use though its stored record says so, and the one not in
\* use has been selected for a step
C21_Witness ==
  /\ editorOpen
  /\ "A" \in isPartOfWorkflow
  /\ "A" \notin storedIsPartOfWorkflow
  /\ "G" \notin isPartOfWorkflow
  /\ "G" \in storedIsPartOfWorkflow
  /\ \E i \in DOMAIN draft : draft[i].apiConfigId = "G"

\* C22: the proxy answers a request with the JSON body and the status the
\* target returned; when the target was not reached or its body was not
\* JSON it answers status 500 with {error: 'Failed to make API request'}.
C22_ProxyPassesOnOrFails ==
  \A i \in DOMAIN calls :
    calls[i].stage = "answered" =>
      IF calls[i].target.reached /\ calls[i].target.json
      THEN /\ calls[i].reply.status = calls[i].target.status
           /\ calls[i].reply.body = calls[i].target.body
      ELSE /\ calls[i].reply.status = 500
           /\ calls[i].reply.body = Body_proxyError

\* a target has answered a non-2xx status with a JSON error body, and the
\* proxy has answered the step's call
C22_Witness ==
  \E i \in DOMAIN calls :
    /\ calls[i].stage = "answered"
    /\ calls[i].target.reached
    /\ calls[i].target.status = 400
    /\ calls[i].target.body = Body_error

\* a target has answered with a body that is not JSON, and the proxy has
\* answered the step's call
C22_FailureReached ==
  \E i \in DOMAIN calls :
    /\ calls[i].stage = "answered"
    /\ calls[i].target.reached
    /\ ~calls[i].target.json

\* the call completes now in handleSubmit's catch (the fetch to the proxy
\* threw or the proxy's body could not be parsed): the error shown changes
FailsNow(i) == Len(calls') < Len(calls) /\ error' # error

\* C23: a transport or decode failure of a step leaves the current step
\* index and every StepResponse entry unchanged, sets the error shown, and
\* ends with loading false and the runner on the step that failed, so that
\* the same step can be run again; every completion of a call, failed or
\* not, ends with loading false.
C23_FailureKeepsStep ==
  [][\A i \in DOMAIN calls :
       /\ Len(calls') < Len(calls) => loading' = FALSE
       /\ FailsNow(i) =>
            /\ currentStep' = currentStep
            /\ currentStep' = calls[i].step
            /\ stepResponses' = stepResponses
            /\ error' # NoError
            /\ ButtonEnabled']_vars

\* the second step has failed in transport or decoding: the error is shown,
\* the first step's response is still recorded and the runner is on the
\* second step, not loading
C23_Witness ==
  /\ error \in ErrorMessages
  /\ failedStep = 1
  /\ currentStep = 1
  /\ 0 \in DOMAIN stepResponses
  /\ calls = <<>>
  /\ ~loading

\* the current step index is one of the workflow's and no response is
\* recorded for a step after it
IndexInRange ==
  /\ currentStep \in 0..LastIndex
  /\ \A k \in DOMAIN stepResponses : k <= currentStep

\* C24: in a run of a workflow of n >= 1 steps the current step index is
\* between 0 and n-1 and every key of the StepResponse table is at most the
\* current step index, before and after every step of the run; the index
\* never decreases and changes only by +1, when a call completes.
C24_IndexMonotone ==
  [][Len(workflow) >= 1 =>
       /\ IndexInRange
       /\ IndexInRange'
       /\ currentStep' \in {currentStep, currentStep + 1}
       /\ currentStep' = currentStep + 1 => Len(calls') < Len(calls)]_vars

\* the run has gone through all the steps of a two-step workflow: the index
\* is at the last step and both responses are recorded
C24_Witness ==
  /\ Len(workflow) = 2
  /\ currentStep = 1
  /\ DOMAIN stepResponses = {0, 1}
  /\ calls = <<>>

(***************************************************************************)
(* The documentation chat (Chat).  A request in flight is a record with    *)
(* its kind ("products" for getProducts, "fallback" for the fetch of       *)
(* /product_docs.json, "validate" for validateProduct, "ask" for           *)
(* sendMessage) and what the handler that awaits it holds: the product,    *)
(* the question and currentMessages.                                       *)
(***************************************************************************)
MaxQuestions == 2
MaxChatRequests == 2

ProductNames == {"upi", "kyc"}

\* what can be typed into the message field
QuestionTexts == {"", " ", "q1", "q2"}

\* text.trim() for the texts of the model
Trim(text) == IF text = " " THEN "" ELSE text

Message(role, content) == [role |-> role, content |-> content]

ChatRequest(kind, forProduct, question, currentMessages) ==
  [kind |-> kind, product |-> forProduct, question |-> question,
   currentMessages |-> currentMessages]

\* the answer of the backend to a question
AnswerTo(question) == IF question = "q1" THEN "a1" ELSE "a2"

NoDocsText == "## No Information Found"

\* the component is mounted: its useEffect has called loadProducts
InitChat ==
  /\ messages = <<>>
  /\ input = ""
  /\ product = ""
  /\ products = {}
  /\ chatLoading = TRUE
  /\ chatError = ""
  /\ systemMessage = "Select a product to start chatting"
  /\ chatRequests = <<ChatRequest("products", "", "", <<>>)>>
  /\ asked = 0
  /\ workflow = <<>>
  /\ currentStep = 0
  /\ stepResponses = <<>>
  /\ formData = <<>>
  /\ loading = FALSE
  /\ error = NoError
  /\ calls = <<>>
  /\ attempt = "idle"
  /\ failedStep = -1
  /\ EditorClosed
  /\ ConfigPagesClosed(apis)
  /\ SlackClosed
  /\ ApiIdle
  /\ RoutesIdle
  /\ StreamIdle

\* the refresh button: loadProducts up to its first await
loadProducts ==
  /\ ~chatLoading
  /\ Len(chatRequests) < MaxChatRequests
  /\ chatLoading' = TRUE
  /\ chatRequests' = Append(chatRequests, ChatRequest("products", "", "", <<>>))
  /\ UNCHANGED <<messages, input, product, products, chatError,
                 systemMessage, asked>>
  /\ UNCHANGED nonChatVars

\* loadProducts after getProducts: the products are set, or the file of the
\* fallback is fetched
loadProductsResume(i, ok) ==
  /\ i \in DOMAIN chatRequests
  /\ chatRequests[i].kind = "products"
  /\ chatLoading' = FALSE
  /\ IF ok
     THEN /\ products' = ProductNames
          /\ chatRequests' = RemoveAt(chatRequests, i)
     ELSE /\ products' = products
          /\ chatRequests' =
               [chatRequests EXCEPT ![i] = ChatRequest("fallback", "", "", <<>>)]
  /\ UNCHANGED <<messages, input, product, chatError, systemMessage, asked>>
  /\ UNCHANGED nonChatVars

\* loadProducts after the fetch of the fallback file
loadProductsFallback(i, ok) ==
  /\ i \in DOMAIN chatRequests
  /\ chatRequests[i].kind = "fallback"
  /\ chatRequests' = RemoveAt(chatRequests, i)
  /\ IF ok
     THEN products' = ProductNames /\ chatError' = chatError
     ELSE products' = products /\ chatError' = "Failed to load products"
  /\ UNCHANGED <<messages, input, product, chatLoading, systemMessage, asked>>
  /\ UNCHANGED nonChatVars

\* another product is chosen in the select: handleProductChange up to its
\* await
handleProductChange(selectedProduct) ==
  /\ selectedProduct \in products
  /\ selectedProduct # product
  /\ Len(chatRequests) < MaxChatRequests
  /\ product' = selectedProduct
  /\ chatLoading' = TRUE
  /\ chatRequests' =
       Append(chatRequests, ChatRequest("validate", selectedProduct, "", <<>>))
  /\ UNCHANGED <<messages, input, products, chatError, systemMessage, asked>>
  /\ UNCHANGED nonChatVars

\* what handleProductChange shows for the answer of validateProduct
ValidationMessage(outcome) ==
  CASE outcome = "error" -> "Warning: error"
    [] outcome = "active" -> "Selected: documents available"
    [] outcome = "empty" -> "Warning: No documents found"
    [] OTHER -> "Selected product"

ValidationOutcomes == {"error", "active", "empty", "unknown"}

\* handleProductChange after validateProduct
handleProductChangeResume(i, outcome) ==
  /\ i \in DOMAIN chatRequests
  /\ chatRequests[i].kind = "validate"
  /\ chatLoading' = FALSE
  /\ systemMessage' = ValidationMessage(outcome)
  /\ chatRequests' = RemoveAt(chatRequests, i)
  /\ UNCHANGED <<messages, input, product, products, chatError, asked>>
  /\ UNCHANGED nonChatVars

\* text entered into the message field, which is disabled while loading or
\* without a product
setInput(text) ==
  /\ ~chatLoading
  /\ product # ""
  /\ text # input
  /\ input' = text
  /\ UNCHANGED <<messages, product, products, chatLoading, chatError,
                 systemMessage, chatRequests, asked>>
  /\ UNCHANGED nonChatVars

\* handleSend up to its await: the user's message is appended, the input
\* emptied and the question sent; currentMessages goes with the request
handleSend ==
  /\ Trim(input) # ""
  /\ product # ""
  /\ ~chatLoading
  /\ asked < MaxQuestions
  /\ Len(chatRequests) < MaxChatRequests
  /\ LET currentMessages == Append(messages, Message("user", input))
     IN /\ messages' = currentMessages
        /\ chatRequests' =
             Append(chatRequests,
                    ChatRequest("ask", product, input, currentMessages))
  /\ input' = ""
  /\ chatLoading' = TRUE
  /\ chatError' = ""
  /\ systemMessage' = "Processing your question..."
  /\ asked' = asked + 1
  /\ UNCHANGED <<product, products>>
  /\ UNCHANGED nonChatVars

\* setMessages([...currentMessages, reply]): the reply set after the
\* messages the handler held when it sent the question
ReplyOnto(currentMessages, reply) == Append(currentMessages, reply)

AskOutcomes == {"answer", "nodocs", "error"}

\* handleSend after sendMessage: an error is shown, or the assistant's
\* message is set after currentMessages; loading ends in every case
handleSendResume(i, outcome) ==
  /\ i \in DOMAIN chatRequests
  /\ chatRequests[i].kind = "ask"
  /\ LET request == chatRequests[i]
     IN CASE outcome = "error" ->
               /\ chatError' = "Request failed"
               /\ systemMessage' = "Error: Failed to get response"
               /\ messages' = messages
          [] outcome = "nodocs" ->
               /\ messages' = ReplyOnto(request.currentMessages,
                                        Message("assistant", NoDocsText))
               /\ systemMessage' = "Ready for next question"
               /\ chatError' = chatError
          [] OTHER ->
               /\ messages' = ReplyOnto(request.currentMessages,
                                Message("assistant", AnswerTo(request.question)))
               /\ systemMessage' = "Ready for next question"
               /\ chatError' = chatError
  /\ chatLoading' = FALSE
  /\ chatRequests' = RemoveAt(chatRequests, i)
  /\ UNCHANGED <<input, product, products, asked>>
  /\ UNCHANGED nonChatVars

\* the Clear Chat button
handleClearChat ==
  /\ messages # <<>>
  /\ messages' = <<>>
  /\ systemMessage' = "Chat cleared. Select a product to start chatting"
  /\ UNCHANGED <<input, product, products, chatLoading, chatError,
                 chatRequests, asked>>
  /\ UNCHANGED nonChatVars

ProductsArrive ==
  \E i \in DOMAIN chatRequests, ok \in BOOLEAN : loadProductsResume(i, ok)

FallbackArrives ==
  \E i \in DOMAIN chatRequests, ok \in BOOLEAN : loadProductsFallback(i, ok)

SelectsProduct ==
  \E selectedProduct \in ProductNames : handleProductChange(selectedProduct)

ValidationArrives ==
  \E i \in DOMAIN chatRequests, outcome \in ValidationOutcomes :
    handleProductChangeResume(i, outcome)

TypesQuestion == \E text \in QuestionTexts : setInput(text)

AnswerArrives ==
  \E i \in DOMAIN chatRequests, outcome \in AskOutcomes :
    handleSendResume(i, outcome)

NextChat ==
  \/ loadProducts
  \/ ProductsArrive
  \/ FallbackArrives
  \/ SelectsProduct
  \/ ValidationArrives
  \/ TypesQuestion
  \/ handleSend
  \/ AnswerArrives
  \/ handleClearChat

SpecChat == InitChat /\ [][NextChat]_vars

\* the questions in flight
QuestionsInFlight == {i \in DOMAIN chatRequests : chatRequests[i].kind = "ask"}

\* the history after the step starts with the history before it
HistoryKept ==
  /\ Len(messages') >= Len(messages)
  /\ SubSeq(messages', 1, Len(messages)) = messages

\* the step is a click on Clear Chat
ClearedNow == messages # <<>> /\ messages' = <<>>

\* C25, first half: at most one question is in flight at a time.
C25_OneQuestionInFlight == Cardinality(QuestionsInFlight) <= 1

\* C25, second half: but for a click on Clear Chat, every step of the chat
\* keeps the messages of the history and only appends to them.
C25_HistoryAppendOnly == [][ClearedNow \/ HistoryKept]_vars

MaxSlackOps == 3

ChannelIds == {"c1", "c2"}

SlackRequest(kind, channelId) == [kind |-> kind, channelId |-> channelId]

\* useEffect of the mount: loadProducts() and loadChannels() both set
\* loading and are awaited
InitSlack ==
  /\ workflow = <<>>
  /\ currentStep = 0
  /\ stepResponses = <<>>
  /\ formData = <<>>
  /\ loading = FALSE
  /\ error = NoError
  /\ calls = <<>>
  /\ attempt = "idle"
  /\ failedStep = -1
  /\ EditorClosed
  /\ ConfigPagesClosed(apis)
  /\ ChatClosed
  /\ processing = NoProcessing
  /\ slackLoading = TRUE
  /\ channels = {}
  /\ slackStatus = ""
  /\ slackRequests = <<SlackRequest("products", ""), SlackRequest("channels", "")>>
  /\ slackOps = 0
  /\ ApiIdle
  /\ RoutesIdle
  /\ StreamIdle

\* loadProducts after getProducts (the products are not part of the model)
slackLoadProductsResume(i) ==
  /\ i \in DOMAIN slackRequests
  /\ slackRequests[i].kind = "products"
  /\ slackLoading' = FALSE
  /\ slackRequests' = RemoveAt(slackRequests, i)
  /\ UNCHANGED <<processing, channels, slackStatus, slackOps>>
  /\ UNCHANGED nonSlackVars

\* the refresh button of the channels (never disabled): loadChannels up to
\* its await
loadChannels ==
  /\ slackOps < MaxSlackOps
  /\ slackOps' = slackOps + 1
  /\ slackLoading' = TRUE
  /\ slackRequests' = Append(slackRequests, SlackRequest("channels", ""))
  /\ UNCHANGED <<processing, channels, slackStatus>>
  /\ UNCHANGED nonSlackVars

\* loadChannels after listChannels: listed is the channels of the answer,
\* ok is FALSE for an answer without data
loadChannelsResume(i, ok, listed) ==
  /\ i \in DOMAIN slackRequests
  /\ slackRequests[i].kind = "channels"
  /\ slackLoading' = FALSE
  /\ channels' = IF ok THEN listed ELSE channels
  /\ slackRequests' = RemoveAt(slackRequests, i)
  /\ UNCHANGED <<processing, slackStatus, slackOps>>
  /\ UNCHANGED nonSlackVars

\* disabled of the 'Process channel' button of a row
ProcessDisabled_never == FALSE
ProcessDisabled == processing # NoProcessing

\* disabled of the 'Process All Channels' button
ProcessAllDisabled ==
  slackLoading \/ channels = {} \/ processing # NoProcessing

\* handleProcessChannel up to its await
handleProcessChannel(channelId) ==
  /\ channelId \in channels
  /\ ~ProcessDisabled
  /\ slackOps < MaxSlackOps
  /\ slackOps' = slackOps + 1
  /\ processing' = channelId
  /\ slackRequests' = Append(slackRequests, SlackRequest("process", channelId))
  /\ UNCHANGED <<slackLoading, channels, slackStatus>>
  /\ UNCHANGED nonSlackVars

\* handleProcessAllChannels up to its await
handleProcessAllChannels ==
  /\ ~ProcessAllDisabled
  /\ slackOps < MaxSlackOps
  /\ slackOps' = slackOps + 1
  /\ processing' = "all"
  /\ slackRequests' = Append(slackRequests, SlackRequest("processAll", ""))
  /\ UNCHANGED <<slackLoading, channels, slackStatus>>
  /\ UNCHANGED nonSlackVars

ProcessOutcomes == {"message", "nomessage", "error", "throws"}

\* what setStatus is given after a processing call
ProcessStatus(kind, outcome) ==
  CASE outcome = "error" -> "Error: e"
    [] outcome = "message" -> "m"
    [] outcome = "nomessage" ->
         IF kind = "process" THEN "Channel processed successfully"
         ELSE "All channels processed successfully"
    [] OTHER ->
         IF kind = "process" THEN "Error processing channel: e"
         ELSE "Error processing all channels: e"

\* handleProcessChannel and handleProcessAllChannels after their await: try,
\* catch and finally; a successful processing calls loadChannels()
handleProcessResume(i, outcome) ==
  /\ i \in DOMAIN slackRequests
  /\ slackRequests[i].kind \in {"process", "processAll"}
  /\ slackStatus' = ProcessStatus(slackRequests[i].kind, outcome)
  /\ IF outcome \in {"message", "nomessage"}
     THEN /\ slackLoading' = TRUE
          /\ slackRequests' = Append(RemoveAt(slackRequests, i),
                                     SlackRequest("channels", ""))
     ELSE /\ slackLoading' = slackLoading
          /\ slackRequests' = RemoveAt(slackRequests, i)
  /\ processing' = NoProcessing
  /\ UNCHANGED <<channels, slackOps>>
  /\ UNCHANGED nonSlackVars

SlackRequestIndices == 1..(MaxSlackOps + 3)

SlackProductsArrive == \E i \in SlackRequestIndices : slackLoadProductsResume(i)

ChannelsArrive ==
  \E i \in SlackRequestIndices, ok \in BOOLEAN, listed \in SUBSET ChannelIds :
    loadChannelsResume(i, ok, listed)

ProcessesChannel == \E channelId \in ChannelIds : handleProcessChannel(channelId)

ProcessingArrives ==
  \E i \in SlackRequestIndices, outcome \in ProcessOutcomes :
    handleProcessResume(i, outcome)

NextSlack ==
  \/ SlackProductsArrive
  \/ loadChannels
  \/ ChannelsArrive
  \/ ProcessesChannel
  \/ handleProcessAllChannels
  \/ ProcessingArrives

SpecSlack == InitSlack /\ [][NextSlack]_vars

ProcessingInFlight ==
  {i \in DOMAIN slackRequests : slackRequests[i].kind \in {"process", "processAll"}}

\* the marker names the processing in flight, and is null when there is none
MarkerMatches ==
  /\ Cardinality(ProcessingInFlight) <= 1
  /\ processing = NoProcessing <=> ProcessingInFlight = {}
  /\ \A i \in ProcessingInFlight :
       processing = IF slackRequests[i].kind = "processAll" THEN "all"
                    ELSE slackRequests[i].channelId

\* a processing call comes back
ProcessingEnds ==
  Cardinality(ProcessingInFlight') < Cardinality(ProcessingInFlight)

\* C26: in the Slack manager at most one processing (of one channel or of
\* all channels) is in flight at a time; while the processing marker is
\* non-null no processing starts, and when a processing call comes back,
\* with data, with an error or with an exception, the marker is null again
C26_OneProcessing ==
  /\ []MarkerMatches
  /\ [][/\ processing # NoProcessing =>
             Cardinality(ProcessingInFlight') <= Cardinality(ProcessingInFlight)
        /\ ProcessingEnds => processing' = NoProcessing]_vars

\* a processing of one channel has come back with an error, another one of
\* all channels is in flight
C26_Witness ==
  /\ slackStatus = "Error: e"
  /\ processing = "all"
  /\ Cardinality(ProcessingInFlight) = 1
(***************************************************************************)
(* apiRequest (services/api.ts).  A response is the outcome of fetch       *)
(* (network "failed" when it rejects), the status, what response.json()    *)
(* gives for the body ("notjson" when it rejects, else the kind of the     *)
(* JSON value) and, for an object, its detail.  A text is a sequence of    *)
(* pieces, so that a template or a join is the concatenation it is.        *)
(***************************************************************************)
MaxDetailErrors == 2

Statuses == {200, 201, 404, 422, 500}

\* response.ok
Ok(status) == status >= 200 /\ status <= 299

\* the elements of a validation list: null, or an object with or without a
\* loc and a msg
ValidationErrors ==
  [isNull : {FALSE}, loc : {<<>>, <<"body", "name">>}, msg : {"", "required"}]
    \cup {[isNull |-> TRUE, loc |-> <<>>, msg |-> ""]}

ValidationLists ==
  UNION {[1..n -> ValidationErrors] : n \in 0..MaxDetailErrors}

Details ==
  {NoDetail}
    \cup [t : {"string"}, text : {"", "not found"}, list : {<<>>}]
    \cup [t : {"object"}, text : {""}, list : {<<>>}]
    \cup [t : {"list"}, text : {""}, list : ValidationLists]

Responses ==
  [network : {"failed"}, status : {0}, body : {"none"}, detail : {NoDetail}]
    \cup [network : {"answered"}, status : Statuses,
          body : {"notjson", "null", "number"}, detail : {NoDetail}]
    \cup [network : {"answered"}, status : Statuses,
          body : {"object"}, detail : Details]

RECURSIVE Join(_, _)
\* Array.prototype.join of texts
Join(texts, separator) ==
  IF texts = <<>> THEN <<>>
  ELSE IF Len(texts) = 1 THEN texts[1]
  ELSE texts[1] \o <<separator>> \o Join(Tail(texts), separator)

Thrown(message) == [thrown |-> TRUE, message |-> message]
NotThrown(text) == [thrown |-> FALSE, message |-> text]

\* the message of the TypeError of a property read on null
NullRead(property) == <<"Cannot read properties of null (reading '", property, "')">>

\* JSON.stringify of an element of the list, and of a detail that is an
\* object
JSONStringify(err) ==
  <<"{">> \o (IF err.loc = <<>> THEN <<>> ELSE <<"loc">>)
          \o (IF err.msg = "" THEN <<>> ELSE <<"msg">>) \o <<"}">>

DetailJson == <<"{detail}">>

\* `${err.loc?.join('.') || ''}: ${err.msg || JSON.stringify(err)}`
ErrText(err) ==
  IF err.isNull THEN Thrown(NullRead("loc"))
  ELSE NotThrown(Join([j \in DOMAIN err.loc |-> <<err.loc[j]>>], ".")
                   \o <<": ">>
                   \o (IF err.msg # "" THEN <<err.msg>> ELSE JSONStringify(err)))

\* data.detail.map(...).join('; '): the first element that throws ends it
JoinedErrors(list) ==
  IF \E j \in DOMAIN list : ErrText(list[j]).thrown
  THEN ErrText(list[CHOOSE j \in DOMAIN list :
                      /\ ErrText(list[j]).thrown
                      /\ \A i \in 1..(j - 1) : ~ErrText(list[i]).thrown])
  ELSE NotThrown(Join([j \in DOMAIN list |-> ErrText(list[j]).message], "; "))

RequestFailed(status) == <<"Request failed with status ", ToString(status)>>

\* lines 19-39: the message of the Error thrown for a response that is not
\* ok, or of the TypeError met on the way
ErrorMessage(response) ==
  IF response.body = "null" THEN NullRead("detail")
  ELSE LET detail == response.detail IN
       CASE detail.t = "string" /\ detail.text # "" -> <<detail.text>>
         [] detail.t = "list" -> JoinedErrors(detail.list).message
         [] detail.t = "object" -> DetailJson
         [] OTHER -> RequestFailed(response.status)

\* the try block: what it returns, or what it throws
apiRequestTry(response) ==
  IF response.network = "failed" THEN Thrown(<<"Failed to fetch">>)
  ELSE IF response.body = "notjson"
       THEN Thrown(<<"Unexpected token in JSON">>)
  ELSE IF ~Ok(response.status) THEN Thrown(ErrorMessage(response))
  ELSE NotThrown(<<>>)

\* apiRequest: { data } from the try block, { error: error.message } from
\* the catch (all that is thrown is an Error)
apiRequest(response) ==
  LET try == apiRequestTry(response) IN
  IF try.thrown
  THEN [returned |-> TRUE, data |-> Absent, error |-> try.message]
  ELSE [returned |-> TRUE, data |-> <<response.body, response.detail>>,
        error |-> Absent]

InitApi ==
  /\ workflow = <<>>
  /\ currentStep = 0
  /\ stepResponses = <<>>
  /\ formData = <<>>
  /\ loading = FALSE
  /\ error = NoError
  /\ calls = <<>>
  /\ attempt = "idle"
  /\ failedStep = -1
  /\ EditorClosed
  /\ ConfigPagesClosed(apis)
  /\ ChatClosed
  /\ SlackClosed
  /\ apiResponse \in Responses
  /\ apiResult = NoResult
  /\ RoutesIdle
  /\ StreamIdle

\* the call returns
ApiRequestReturns ==
  /\ ~apiResult.returned
  /\ apiResult' = apiRequest(apiResponse)
  /\ UNCHANGED apiResponse
  /\ UNCHANGED nonApiVars

\* the next call, of another response
ApiRequestCalled ==
  /\ apiResult.returned
  /\ apiResponse' \in Responses
  /\ apiResult' = NoResult
  /\ UNCHANGED nonApiVars

NextApi == ApiRequestReturns \/ ApiRequestCalled

SpecApi == InitApi /\ [][NextApi]_vars

\* the detail of the body as the error is to give it: the string, the
\* joined validation list, or the JSON text
DetailText(response) ==
  LET detail == response.detail IN
  CASE detail.t = "string" -> <<detail.text>>
    [] detail.t = "list" ->
         Join([j \in DOMAIN detail.list |->
                 Join([k \in DOMAIN detail.list[j].loc |->
                         <<detail.list[j].loc[k]>>], ".")
                   \o <<": ">>
                   \o (IF detail.list[j].msg # "" THEN <<detail.list[j].msg>>
                       ELSE JSONStringify(detail.list[j]))], "; ")
    [] detail.t = "object" -> DetailJson
    [] OTHER -> RequestFailed(response.status)

JsonAnswer ==
  apiResponse.network = "answered" /\ apiResponse.body # "notjson"

\* C27: apiRequest returns (never throws) an object with exactly one of data
\* and error set; data is set only for a 2xx response with a JSON body, and
\* for a non-2xx response with a JSON body error is the body's detail
\* (string, joined validation list, or JSON text) or 'Request failed with
\* status <status>'
C27_DataOrError ==
  apiResult.returned =>
    /\ (apiResult.data # Absent) # (apiResult.error # Absent)
    /\ apiResult.data # Absent => Ok(apiResponse.status) /\ JsonAnswer
    /\ JsonAnswer /\ ~Ok(apiResponse.status) =>
         apiResult.error \in {DetailText(apiResponse),
                              RequestFailed(apiResponse.status)}
(***************************************************************************)
(* The routes POST /api/api-configs and DELETE, GET /api/api-configs/[id]  *)
(* over the tables of the Prisma schema.  An id is a number: cuid() gives  *)
(* an id that no row has had.  A header or parameter row is identified by  *)
(* its definition and its place in the list it was created from.           *)
(***************************************************************************)
MaxCreated == 1
MaxSuppliedHeaders == 1
MaxSuppliedParameters == 1

\* !v of a field of the body
Missing(v) == v \in {Undefined, JStr("")}

\* x.isRequired || false, for an isRequired that is absent, true or false
OrFalse_given(isRequired) == isRequired # "false"
OrFalse(isRequired) == isRequired = "true"

IsRequiredValues == {"undefined", "true", "false"}

SuppliedHeaders ==
  {NotSupplied} \cup
  [supplied : {TRUE},
   list : UNION {[1..n -> [key : {"k"}, value : {"v"},
                            isRequired : IsRequiredValues]] :
                   n \in 0..MaxSuppliedHeaders}]

SuppliedParameters ==
  {NotSupplied} \cup
  [supplied : {TRUE},
   list : UNION {[1..n -> [name : {"p"}, type : {"string"},
                            location : {"query"},
                            isRequired : IsRequiredValues]] :
                   n \in 0..MaxSuppliedParameters}]

FieldValues == {Undefined, JStr(""), JStr("v")}

\* the four required fields of a body: all present, all missing, or one of
\* them missing or empty
RequiredFields ==
  {f \in [{"name", "description", "endpoint", "method"} -> FieldValues] :
     \/ \A k \in DOMAIN f : f[k] = Undefined
     \/ Cardinality({k \in DOMAIN f : f[k] # JStr("v")}) <= 1}

\* the bodies of a POST: JSON objects, and null
Bodies ==
  {[kind |-> "object", name |-> f["name"], description |-> f["description"],
    endpoint |-> f["endpoint"], method |-> f["method"], headers |-> h,
    parameters |-> p] :
     f \in RequiredFields, h \in SuppliedHeaders, p \in SuppliedParameters}
    \cup {[NoBody EXCEPT !.kind = "null"]}

\* headers?.map(...) || [] as the rows that the nested create stores
HeaderRows(id, headers) ==
  {[apiConfigId |-> id, place |-> j, key |-> headers.list[j].key,
    value |-> headers.list[j].value,
    isRequired |-> OrFalse(headers.list[j].isRequired)] :
     j \in DOMAIN headers.list}

\* parameters?.map(...) || [] as the rows that the nested create stores
ParameterRows(id, parameters) ==
  {[apiConfigId |-> id, place |-> j, name |-> parameters.list[j].name,
    type |-> parameters.list[j].type,
    location |-> parameters.list[j].location,
    isRequired |-> OrFalse(parameters.list[j].isRequired)] :
     j \in DOMAIN parameters.list}

ConfigRow(id, body) ==
  [id |-> id, name |-> body.name, description |-> body.description,
   endpoint |-> body.endpoint, method |-> body.method,
   isWorkflowEnabled |-> FALSE]

RouteReply(route, id, status, message) ==
  [route |-> route, id |-> id, status |-> status, error |-> message]

\* the definition that earlier requests have stored: one definition with a
\* header and a parameter
SeedBody ==
  [kind |-> "object", name |-> JStr("v"), description |-> JStr("v"),
   endpoint |-> JStr("v"), method |-> JStr("v"),
   headers |-> [supplied |-> TRUE,
                list |-> <<[key |-> "k", value |-> "v", isRequired |-> "true"]>>],
   parameters |-> [supplied |-> TRUE,
                   list |-> <<[name |-> "p", type |-> "string",
                               location |-> "query",
                               isRequired |-> "undefined"]>>]]

InitRoutes ==
  /\ workflow = <<>>
  /\ currentStep = 0
  /\ stepResponses = <<>>
  /\ formData = <<>>
  /\ loading = FALSE
  /\ error = NoError
  /\ calls = <<>>
  /\ attempt = "idle"
  /\ failedStep = -1
  /\ EditorClosed
  /\ ConfigPagesClosed(apis)
  /\ ChatClosed
  /\ SlackClosed
  /\ ApiIdle
  /\ apiConfigRows = {ConfigRow(0, SeedBody)}
  /\ apiHeaderRows = HeaderRows(0, SeedBody.headers)
  /\ apiParameterRows = ParameterRows(0, SeedBody.parameters)
  /\ created = 0
  /\ routeRequest = NoBody
  /\ routeReply = NoRouteReply
  /\ deletedIds = {}
  /\ StreamIdle

\* POST /api/api-configs
POST(body) ==
  /\ routeRequest' = body
  /\ IF body.kind # "object"
     THEN \* the destructuring of line 7 throws
          /\ routeReply' = RouteReply("POST", -1, 500, "TypeError")
          /\ UNCHANGED <<apiConfigRows, apiHeaderRows, apiParameterRows, created>>
     ELSE IF \/ Missing(body.name) \/ Missing(body.description)
             \/ Missing(body.endpoint) \/ Missing(body.method)
     THEN /\ routeReply' = RouteReply("POST", -1, 400, "Missing required fields")
          /\ UNCHANGED <<apiConfigRows, apiHeaderRows, apiParameterRows, created>>
     ELSE /\ created < MaxCreated
          /\ created' = created + 1
          /\ apiConfigRows' = apiConfigRows \cup {ConfigRow(created', body)}
          /\ apiHeaderRows' = apiHeaderRows \cup HeaderRows(created', body.headers)
          /\ apiParameterRows' =
               apiParameterRows \cup ParameterRows(created', body.parameters)
          /\ routeReply' = RouteReply("POST", created', 200, "")
  /\ UNCHANGED deletedIds
  /\ UNCHANGED nonRouteVars

\* onDelete: Cascade of the relations of ApiHeader and ApiParameter
Cascade_none(rows, id) == rows
Cascade(rows, id) == {row \in rows : row.apiConfigId # id}

\* DELETE /api/api-configs/[id]: prisma.apiConfig.delete throws when no row
\* has the id
DELETE(id) ==
  /\ routeRequest' = NoBody
  /\ IF \E row \in apiConfigRows : row.id = id
     THEN /\ apiConfigRows' = {row \in apiConfigRows : row.id # id}
          /\ apiHeaderRows' = Cascade(apiHeaderRows, id)
          /\ apiParameterRows' = Cascade(apiParameterRows, id)
          /\ deletedIds' = deletedIds \cup {id}
          /\ routeReply' = RouteReply("DELETE", id, 200, "")
     ELSE /\ routeReply' =
               RouteReply("DELETE", id, 500, "Failed to delete API configuration")
          /\ UNCHANGED <<apiConfigRows, apiHeaderRows, apiParameterRows,
                         deletedIds>>
  /\ UNCHANGED created
  /\ UNCHANGED nonRouteVars

\* GET /api/api-configs/[id]
GET(id) ==
  /\ routeRequest' = NoBody
  /\ routeReply' =
       IF \E row \in apiConfigRows : row.id = id
       THEN RouteReply("GET", id, 200, "")
       ELSE RouteReply("GET", id, 404, "API configuration not found")
  /\ UNCHANGED <<apiConfigRows, apiHeaderRows, apiParameterRows, created,
                 deletedIds>>
  /\ UNCHANGED nonRouteVars

\* the ids a request can name: those given out so far and one never given
RouteIds == 0..(MaxCreated + 1)

Posts == \E body \in Bodies : POST(body)
Deletes == \E id \in RouteIds : DELETE(id)
Gets == \E id \in RouteIds : GET(id)

NextRoutes == Posts \/ Deletes \/ Gets

SpecRoutes == InitRoutes /\ [][NextRoutes]_vars

TablesKept ==
  UNCHANGED <<apiConfigRows, apiHeaderRows, apiParameterRows>>

PostAnswered == routeReply'.route = "POST"

AllFour(body) ==
  ~(\/ Missing(body.name) \/ Missing(body.description)
    \/ Missing(body.endpoint) \/ Missing(body.method))

\* the rows of the headers and parameters of definition id are those
\* supplied, each with its isRequired or false
StoredAsSupplied(id, body) ==
  /\ \A j \in DOMAIN body.headers.list :
       \E row \in apiHeaderRows' :
         /\ row.apiConfigId = id /\ row.place = j
         /\ row.key = body.headers.list[j].key
         /\ row.isRequired = (body.headers.list[j].isRequired = "true")
  /\ \A j \in DOMAIN body.parameters.list :
       \E row \in apiParameterRows' :
         /\ row.apiConfigId = id /\ row.place = j
         /\ row.name = body.parameters.list[j].name
         /\ row.isRequired = (body.parameters.list[j].isRequired = "true")
  /\ Cardinality({row \in apiHeaderRows' : row.apiConfigId = id})
       = Len(body.headers.list)
  /\ Cardinality({row \in apiParameterRows' : row.apiConfigId = id})
       = Len(body.parameters.list)

DeleteAnswered == routeReply'.route = "DELETE"

\* the rows of a table that belong to other definitions than id
OfOthers(rows, id) == {row \in rows : row.apiConfigId # id}

\* C30: a DELETE of an id that a definition has removes that definition,
\* its headers and its parameters and nothing else; a DELETE of an id that
\* no definition has is answered 500 and changes nothing; and a GET of an
\* id that has been deleted is answered 404 'API configuration not found'
C30_DeleteCascades ==
  /\ [][DeleteAnswered =>
          LET id == routeReply'.id IN
          IF \E row \in apiConfigRows : row.id = id
          THEN /\ routeReply'.status = 200
               /\ apiConfigRows' = {row \in apiConfigRows : row.id # id}
               /\ apiHeaderRows' = OfOthers(apiHeaderRows, id)
               /\ apiParameterRows' = OfOthers(apiParameterRows, id)
          ELSE /\ routeReply'.status = 500
               /\ TablesKept]_vars
  /\ [](routeReply.route = "GET" /\ routeReply.id \in deletedIds =>
          /\ routeReply.status = 404
          /\ routeReply.error = "API configuration not found")

\* a definition with a header and a parameter has been deleted and asked
\* for again, while another definition and its header are still stored
C30_Witness ==
  /\ routeReply = RouteReply("GET", 0, 404, "API configuration not found")
  /\ 0 \in deletedIds
  /\ apiConfigRows # {}
  /\ apiHeaderRows # {}
(***************************************************************************)
(* chatService.streamMessage (services/api.ts).  The server writes items:  *)
(* pieces of content, and sources metadata, the text {"sources":...}.  The *)
(* text of the stream is a sequence of tokens, the metadata being its      *)
(* opening {"sources": , the value of its sources and its closing } ; the  *)
(* network delivers the text in reads that can end after any token.  A     *)
(* text handed to onChunk is the sequence of the texts of its tokens.      *)
(***************************************************************************)
MaxItems == 3

Content(text) == [meta |-> FALSE, text |-> text]
Metadata(value) == [meta |-> TRUE, text |-> value]

\* a piece of content that is itself the text of a JSON object without
\* sources
JsonContent == "{e}"

Items ==
  {Content("a"), Content(JsonContent), Metadata("s1"), Metadata("s2"),
   Metadata("null")}

Token(kind, text) == [kind |-> kind, text |-> text]

TokensOf(item) ==
  IF item.meta
  THEN <<Token("open", "{\"sources\":"), Token("value", item.text),
         Token("close", "}")>>
  ELSE <<Token("content", item.text)>>

RECURSIVE StreamText(_)
\* the text of the whole stream
StreamText(items) ==
  IF items = <<>> THEN <<>>
  ELSE TokensOf(Head(items)) \o StreamText(Tail(items))

RECURSIVE ReadsOf(_, _, _)
\* what reader.read() gives in turn for a text that the network cuts after
\* the tokens of cuts
ReadsOf(text, cuts, from) ==
  IF from > Len(text) THEN <<>>
  ELSE LET to == CHOOSE c \in cuts \cup {Len(text)} :
                   /\ c >= from
                   /\ \A d \in cuts \cup {Len(text)} : d >= from => c <= d
       IN <<SubSeq(text, from, to)>> \o ReadsOf(text, cuts, to + 1)

InitStream ==
  /\ workflow = <<>>
  /\ currentStep = 0
  /\ stepResponses = <<>>
  /\ formData = <<>>
  /\ loading = FALSE
  /\ error = NoError
  /\ calls = <<>>
  /\ attempt = "idle"
  /\ failedStep = -1
  /\ EditorClosed
  /\ ConfigPagesClosed(apis)
  /\ ChatClosed
  /\ SlackClosed
  /\ ApiIdle
  /\ RoutesIdle
  /\ streamItems \in UNION {[1..n -> Items] : n \in 0..MaxItems}
  /\ reads \in {ReadsOf(StreamText(streamItems), cuts, 1) :
                  cuts \in SUBSET (1..(Len(StreamText(streamItems)) - 1))}
  /\ streamPhase = "fetching"
  /\ sources = <<>>
  /\ accumulated = <<>>
  /\ onChunkCalls = <<>>
  /\ onCompleteCalls = <<>>

\* lines 96-113: fetch answers; a response that is not ok is thrown
streamMessage(ok) ==
  /\ streamPhase = "fetching"
  /\ streamPhase' = IF ok THEN "reading" ELSE "thrown"
  /\ UNCHANGED <<streamItems, reads, sources, accumulated, onChunkCalls,
                 onCompleteCalls>>
  /\ UNCHANGED nonStreamVars

\* the texts of the tokens of a text
TextOf(text) == [j \in DOMAIN text |-> text[j].text]

\* text.trim().startsWith('{') && text.trim().endsWith('}')
LooksLikeObject(text) ==
  /\ text # <<>>
  /\ text[1].kind = "open" \/ text[1].text = JsonContent
  /\ text[Len(text)].kind = "close" \/ text[Len(text)].text = JsonContent

NoJson == [parsed |-> FALSE, hasSources |-> FALSE, sources |-> <<>>]

\* jsonData.sources || []
SourcesOrEmpty(value) == IF value = "null" THEN <<>> ELSE <<value>>

\* JSON.parse of a text: the text of one metadata, or the piece of content
\* that is a JSON object; anything else throws
JSONParse(text) ==
  IF /\ Len(text) = 3 /\ text[1].kind = "open" /\ text[2].kind = "value"
     /\ text[3].kind = "close"
  THEN [parsed |-> TRUE, hasSources |-> TRUE,
        sources |-> SourcesOrEmpty(text[2].text)]
  ELSE IF Len(text) = 1 /\ text[1].text = JsonContent
  THEN [parsed |-> TRUE, hasSources |-> FALSE, sources |-> <<>>]
  ELSE NoJson

\* text.indexOf('{"sources":'), 0 when there is none
JsonStartIndex(text) ==
  IF \E j \in DOMAIN text : text[j].kind = "open"
  THEN CHOOSE j \in DOMAIN text :
         /\ text[j].kind = "open"
         /\ \A i \in 1..(j - 1) : text[i].kind # "open"
  ELSE 0

\* what one read does to sources and what it hands to onChunk (<<>> when
\* onChunk is not called)
Processed(text, before) ==
  LET whole == JSONParse(text)
      start == JsonStartIndex(text)
      contentPart == SubSeq(text, 1, start - 1)
      jsonPart == JSONParse(SubSeq(text, start, Len(text)))
  IN IF LooksLikeObject(text) /\ whole.parsed /\ whole.hasSources
     THEN [sources |-> whole.sources, chunk |-> <<>>]
     ELSE IF start # 0
     THEN [sources |-> IF jsonPart.parsed THEN jsonPart.sources ELSE before,
           chunk |-> TextOf(contentPart)]
     ELSE [sources |-> before, chunk |-> TextOf(text)]

\* processStream: one reader.read() and what follows it
processStream ==
  /\ streamPhase = "reading"
  /\ IF reads = <<>>
     THEN /\ onCompleteCalls' = Append(onCompleteCalls, sources)
          /\ streamPhase' = "done"
          /\ UNCHANGED <<reads, sources, accumulated, onChunkCalls>>
     ELSE LET did == Processed(Head(reads), sources) IN
          /\ reads' = Tail(reads)
          /\ sources' = did.sources
          /\ accumulated' = accumulated \o did.chunk
          /\ onChunkCalls' = IF did.chunk = <<>> THEN onChunkCalls
                             ELSE Append(onChunkCalls, did.chunk)
          /\ UNCHANGED <<streamPhase, onCompleteCalls>>
  /\ UNCHANGED streamItems
  /\ UNCHANGED nonStreamVars

\* reader.read() rejects: the connection is lost
readFails ==
  /\ streamPhase = "reading"
  /\ reads # <<>>
  /\ streamPhase' = "thrown"
  /\ UNCHANGED <<streamItems, reads, sources, accumulated, onChunkCalls,
                 onCompleteCalls>>
  /\ UNCHANGED nonStreamVars

FetchAnswers == \E ok \in BOOLEAN : streamMessage(ok)

NextStream == FetchAnswers \/ processStream \/ readFails

SpecStream == InitStream /\ [][NextStream]_vars

RECURSIVE Concatenated(_)
\* the texts handed to onChunk, one after the other
Concatenated(chunks) ==
  IF chunks = <<>> THEN <<>>
  ELSE Head(chunks) \o Concatenated(Tail(chunks))

RECURSIVE ContentOf(_)
\* the content of the stream: its items without the metadata
ContentOf(items) ==
  IF items = <<>> THEN <<>>
  ELSE (IF Head(items).meta THEN <<>> ELSE <<Head(items).text>>)
         \o ContentOf(Tail(items))

RECURSIVE LastSources(_)
\* the sources of the last metadata of the stream, empty when it has none
LastSources(items) ==
  IF items = <<>> THEN <<>>
  ELSE IF items[Len(items)].meta
  THEN SourcesOrEmpty(items[Len(items)].text)
  ELSE LastSources(SubSeq(items, 1, Len(items) - 1))

\* C29, the calls: onComplete is called at most once, only when the stream
\* has ended, and onChunk is not called after it
C29_CompleteOnceAtEnd ==
  /\ Len(onCompleteCalls) <= 1
  /\ streamPhase = "done" <=> Len(onCompleteCalls) = 1
  /\ onCompleteCalls # <<>> => reads = <<>>

\* C29: for a streamed answer onComplete is called exactly once, when the
\* stream has ended; the texts handed to onChunk, concatenated, are the
\* content of the stream without the sources metadata, and the sources
\* handed to onComplete are those of the last metadata received
C29_StreamedAnswer ==
  /\ C29_CompleteOnceAtEnd
  /\ streamPhase = "done" =>
       /\ Concatenated(onChunkCalls) = ContentOf(streamItems)
       /\ onCompleteCalls[1] = LastSources(streamItems)
====
